---- MODULE Spec2Model ----
(***************************************************************************)
(* GrantHunter: the opportunity extraction and consolidation pipeline      *)
(* (scripts/update-funding.mjs, kept here as src/unnamed/part_003).        *)
(*                                                                         *)
(* Texts are TLA+ strings.  A URL is kept in parsed form (the fields of a  *)
(* WHATWG URL object); Href serialises it where the code uses the string.  *)
(* A JavaScript value that may be null/undefined is a sequence of length   *)
(* at most one: None for null, Some(v) for v.                              *)
(***************************************************************************)
EXTENDS Integers, Sequences, FiniteSets, TLC

VARIABLES
    run,            \* number of pipeline runs started so far (the clock `now`)
    pc,             \* position of main(): "idle", "verify", "done", "failed"; of a
                    \* direct call of the verifier: "pool", "returned"; "pure"
    strict,         \* STRICT_URL_VALIDATION, once the running process has read it
    dataFile,       \* docs/data/funding.latest.json: None, or Some(dataset written)
    previousItems,  \* previousItems as loaded by the running process
    deduped,        \* the working list `deduped` of main(), the verifier's `items`
    liveCount,      \* number of items live discovery yielded in this run
    origin,         \* the branch of main() that built the working list: "live",
                    \* "carried_forward" or "fallback" ("none" outside a run)
    urlVerification,\* None, or Some(result of verifyOpportunityUrls)
    cursor,         \* verifier: the shared work cursor
    checks,         \* verifier: the pre-sized result array (None = empty slot)
    wpc,            \* verifier: per worker "off", "settle", "head", "get", "done"
    widx,           \* verifier: per worker the index it is checking
    whead,          \* verifier: per worker the HEAD response it got
    call,           \* None, or Some([fn, args, res]): the last direct call of a function
    discovery,      \* None, or Some(state of the discovery loop of main())
    sender,         \* the digest sender: its runs, its requests and the outbox file
    probes          \* verifier: per item position, the workers that took it, the
                    \* workers that wrote its slot and the requests made for it

vars == <<run, pc, strict, dataFile, previousItems, deduped, liveCount, origin,
          urlVerification, cursor, checks, wpc, widx, whead, call, discovery, sender, probes>>

-----------------------------------------------------------------------------
(* JavaScript values and strings *)

None == << >>
Some(v) == <<v>>
IsSome(m) == m /= None
Val(m) == m[1]

Min(a, b) == IF a <= b THEN a ELSE b

\* String.prototype.slice(0, n)
SliceTo(s, n) == SubSeq(s, 1, Min(n, Len(s)))

\* String.prototype.slice(0, -1)
DropLast(s) == IF Len(s) = 0 THEN s ELSE SubSeq(s, 1, Len(s) - 1)

StartsWith(s, p) == Len(s) >= Len(p) /\ SubSeq(s, 1, Len(p)) = p
EndsWith(s, p) == Len(s) >= Len(p) /\ SubSeq(s, Len(s) - Len(p) + 1, Len(s)) = p

UpperLetters == "ABCDEFGHIJKLMNOPQRSTUVWXYZ"
LowerLetters == "abcdefghijklmnopqrstuvwxyz"

LowerOf == [c \in {SubSeq(UpperLetters, i, i) : i \in 1..26} |->
              LET i == CHOOSE k \in 1..26 : SubSeq(UpperLetters, k, k) = c
              IN  SubSeq(LowerLetters, i, i)]

LowerChar(c) == IF c \in DOMAIN LowerOf THEN LowerOf[c] ELSE c

\* the lower-case form of a text, computed by halves
RECURSIVE ToLowerCase(_)
ToLowerCase(s) ==
    IF Len(s) = 0 THEN ""
    ELSE IF Len(s) = 1 THEN LowerChar(s)
    ELSE LET h == Len(s) \div 2
         IN  ToLowerCase(SubSeq(s, 1, h)) \o ToLowerCase(SubSeq(s, h + 1, Len(s)))

\* String.prototype.includes(sub)
Includes(s, sub) ==
    \E i \in 1..(Len(s) - Len(sub) + 1) : SubSeq(s, i, i + Len(sub) - 1) = sub

\* Array.prototype.join(sep) on an array of strings
RECURSIVE Join(_, _)
Join(parts, sep) ==
    IF Len(parts) = 0 THEN ""
    ELSE IF Len(parts) = 1 THEN parts[1]
    ELSE parts[1] \o sep \o Join(Tail(parts), sep)

\* value || "" for a nullable string
OrEmpty(m) == IF IsSome(m) THEN Val(m) ELSE ""

\* JavaScript truthiness of a nullable string
Truthy(m) == IsSome(m) /\ Val(m) /= ""

\* sha1 hex digest: modelled as an injective tagging of its input (no collisions)
sha1(input) == "sha1:" \o input

-----------------------------------------------------------------------------
(* URLs *)

\* A parsed URL.  ok = FALSE is a string `new URL` rejects; its text is in pathname.
Url(protocol, hostname, pathname, hash) ==
    [ok |-> TRUE, protocol |-> protocol, hostname |-> hostname,
     pathname |-> pathname, hash |-> hash]

BadUrl(text) ==
    [ok |-> FALSE, protocol |-> "", hostname |-> "", pathname |-> text, hash |-> ""]

\* URL.prototype.toString()
Href(u) ==
    IF ~u.ok THEN u.pathname
    ELSE u.protocol \o "//" \o u.hostname \o u.pathname
         \o (IF u.hash = "" THEN "" ELSE "#" \o u.hash)

\* the pathname setter of a special-scheme URL: an empty path serialises as "/"
SetPathname(u, p) == [u EXCEPT !.pathname = IF p = "" THEN "/" ELSE p]

canonicalizeUrl(rawUrl) ==
    IF ~rawUrl.ok THEN rawUrl
    ELSE LET u == [rawUrl EXCEPT !.hash = ""]
         IN  IF EndsWith(u.pathname, "/")
             THEN SetPathname(u, DropLast(u.pathname))
             ELSE u

getHost(url) ==
    IF ~url.ok THEN ""
    ELSE IF StartsWith(url.hostname, "www.")
         THEN SubSeq(url.hostname, 5, Len(url.hostname))
         ELSE url.hostname

isHttpUrl(rawUrl) ==
    rawUrl.ok /\ (rawUrl.protocol = "http:" \/ rawUrl.protocol = "https:")

hostMatchesAllowed(host, allowedHosts) ==
    IF host = "" THEN FALSE
    ELSE IF Len(allowedHosts) = 0 THEN TRUE
    ELSE \E i \in 1..Len(allowedHosts) :
            \E allowed \in {allowedHosts[i]} : EndsWith(host, ToLowerCase(allowed))

\* source: [id, name, homepage: nullable URL, includeHosts: sequence of strings]
resolveAllowedHosts(source) ==
    IF Len(source.includeHosts) > 0
    THEN [i \in 1..Len(source.includeHosts) |-> ToLowerCase(source.includeHosts[i])]
    ELSE LET homepageHost == IF IsSome(source.homepage) THEN getHost(Val(source.homepage)) ELSE ""
         IN  IF homepageHost /= "" THEN <<ToLowerCase(homepageHost)>> ELSE << >>

-----------------------------------------------------------------------------
(* The network, as seen by fetch(url, {redirect: "follow"}) *)

\* A completed response: its status and resp.url, the URL after redirects.
Resp(status, url) == [threw |-> FALSE, status |-> status, url |-> url, message |-> ""]

\* A rejected fetch: error.message.
Threw(message) == [threw |-> TRUE, status |-> 0, url |-> BadUrl(""), message |-> message]

\* Response.ok
RespOk(r) == r.status >= 200 /\ r.status <= 299

isLikelyNetworkError(message) ==
    \E text \in {ToLowerCase(message)} :
        \/ Includes(text, "fetch failed")
        \/ Includes(text, "network")
        \/ Includes(text, "enotfound")
        \/ Includes(text, "econnreset")
        \/ Includes(text, "econnrefused")
        \/ Includes(text, "timed out")
        \/ Includes(text, "abort")

\* the HEAD statuses after which fetchUrlMetadata issues a GET
HeadFallbackStatuses == {403, 405, 429, 500, 501}

NeedsGet(head) == ~head.threw /\ head.status \in HeadFallbackStatuses

\* the metadata object built from the response that is used
Metadata(url, resp) ==
    [threw |-> FALSE, message |-> "",
     ok |-> RespOk(resp),
     status |-> resp.status,
     finalUrl |-> canonicalizeUrl(resp.url),
     redirected |-> canonicalizeUrl(resp.url) /= canonicalizeUrl(url)]

MetaThrew(message) ==
    [threw |-> TRUE, message |-> message, ok |-> FALSE, status |-> 0,
     finalUrl |-> BadUrl(""), redirected |-> FALSE]

\* the variant that never looks at the GET response
fetchUrlMetadata_HeadOnly(url, head, get) ==
    IF head.threw THEN MetaThrew(head.message) ELSE Metadata(url, head)

\* head: the outcome of the HEAD request; get: the outcome of the GET request,
\* read only when the HEAD completed with a fallback status.
fetchUrlMetadata(url, head, get) ==
    IF head.threw THEN MetaThrew(head.message)
    ELSE IF head.status \in HeadFallbackStatuses
         THEN IF get.threw THEN MetaThrew(get.message) ELSE Metadata(url, get)
         ELSE Metadata(url, head)

UrlCheck(status, originalUrl, finalUrl, httpStatus, allowedHost, redirected, error) ==
    [status |-> status, originalUrl |-> originalUrl, finalUrl |-> finalUrl,
     httpStatus |-> httpStatus, allowedHost |-> allowedHost,
     redirected |-> redirected, error |-> error]

\* the part of checkOpportunityUrl that needs no request: Some(result), or None
\* when the URL has to be probed
checkWithoutProbe(item, source) ==
    LET originalUrl == canonicalizeUrl(item.url)
        allowedHosts == resolveAllowedHosts(source)
    IN  IF ~isHttpUrl(originalUrl)
        THEN Some(UrlCheck("invalid_url", originalUrl, None, None, FALSE, FALSE,
                           Some("URL is not a valid http/https address")))
        ELSE IF ~hostMatchesAllowed(getHost(originalUrl), allowedHosts)
        THEN Some(UrlCheck("bad_host", originalUrl, Some(originalUrl), None, FALSE, FALSE,
                           Some("URL host is not allowed for this source")))
        ELSE None

classifyMeta_NoRestricted(originalUrl, allowedHosts, meta) ==
    LET allowedHost == hostMatchesAllowed(getHost(meta.finalUrl), allowedHosts)
    IN  IF meta.threw
        THEN UrlCheck(IF isLikelyNetworkError(meta.message) THEN "network_error" ELSE "check_error",
                      originalUrl, None, None, TRUE, FALSE, Some(meta.message))
        ELSE IF ~meta.ok
        THEN UrlCheck("http_error", originalUrl, Some(meta.finalUrl), Some(meta.status),
                      allowedHost, meta.redirected, Some("HTTP " \o ToString(meta.status)))
        ELSE IF ~allowedHost
        THEN UrlCheck("bad_host", originalUrl, Some(meta.finalUrl), Some(meta.status),
                      FALSE, meta.redirected, Some("Redirected to a host outside allowed domains"))
        ELSE UrlCheck(IF meta.redirected THEN "reachable_with_redirect" ELSE "reachable",
                      originalUrl, Some(meta.finalUrl), Some(meta.status), TRUE,
                      meta.redirected, None)

\* the try/catch of checkOpportunityUrl around fetchUrlMetadata
classifyMeta(originalUrl, allowedHosts, meta) ==
    LET allowedHost == hostMatchesAllowed(getHost(meta.finalUrl), allowedHosts)
    IN  IF meta.threw
        THEN UrlCheck(IF isLikelyNetworkError(meta.message) THEN "network_error" ELSE "check_error",
                      originalUrl, None, None, TRUE, FALSE, Some(meta.message))
        ELSE IF ~meta.ok
        THEN IF meta.status \in {401, 403, 429} /\ allowedHost
             THEN UrlCheck("reachable_restricted", originalUrl, Some(meta.finalUrl),
                           Some(meta.status), TRUE, meta.redirected,
                           Some("Restricted response (HTTP " \o ToString(meta.status)
                                \o ") from source host"))
             ELSE UrlCheck("http_error", originalUrl, Some(meta.finalUrl), Some(meta.status),
                           allowedHost, meta.redirected, Some("HTTP " \o ToString(meta.status)))
        ELSE IF ~allowedHost
        THEN UrlCheck("bad_host", originalUrl, Some(meta.finalUrl), Some(meta.status),
                      FALSE, meta.redirected, Some("Redirected to a host outside allowed domains"))
        ELSE UrlCheck(IF meta.redirected THEN "reachable_with_redirect" ELSE "reachable",
                      originalUrl, Some(meta.finalUrl), Some(meta.status), TRUE,
                      meta.redirected, None)

checkOpportunityUrl(item, source, head, get) ==
    LET early == checkWithoutProbe(item, source)
        originalUrl == canonicalizeUrl(item.url)
    IN  IF IsSome(early) THEN Val(early)
        ELSE classifyMeta(originalUrl, resolveAllowedHosts(source),
                          fetchUrlMetadata(originalUrl, head, get))

-----------------------------------------------------------------------------
(* Configuration *)

\* config/sources.json: two configured sources.  ukri lists its hosts
\* explicitly; royal-society falls back to the host of its homepage.
SrcUkri ==
    [id |-> "ukri", name |-> "UKRI",
     homepage |-> Some(Url("https:", "www.ukri.org", "/", "")),
     includeHosts |-> <<"UKRI.org">>]

SrcRoyal ==
    [id |-> "royal-society", name |-> "Royal Society",
     homepage |-> Some(Url("https:", "royalsociety.org", "/", "")),
     includeHosts |-> << >>]

Sources == <<SrcUkri, SrcRoyal>>

\* sources.find((s) => s.id === id) / new Map(sources.map(...)).get(id)
FindSource(sources, id) ==
    IF \E i \in 1..Len(sources) : sources[i].id = id
    THEN Some(sources[CHOOSE i \in 1..Len(sources) :
                        /\ sources[i].id = id
                        /\ \A j \in 1..(i - 1) : sources[j].id /= id])
    ELSE None

\* The limits main() and the verifier read from the environment (defaults
\* 320, 8, 320 and 120), set small here: MAX_URL_CHECK_ITEMS, URL_CHECK_CONCURRENCY,
\* MAX_TOTAL_ITEMS and MAX_AI_ITEMS of the process.
MAX_URL_CHECK_ITEMS == 2
URL_CHECK_CONCURRENCY == 2
MAX_TOTAL_ITEMS == 3
MAX_AI_ITEMS == 2

-----------------------------------------------------------------------------
(* Opportunities *)

Eligibility(levels, careerStages, nationalities, disciplines) ==
    [levels |-> levels, careerStages |-> careerStages,
     nationalities |-> nationalities, disciplines |-> disciplines]

\* the object literal built by parseRssItems / parseSource / buildFallbackItems;
\* the fields added later in the run start out undefined
Item(id, title, url, sourceId, sourceName, sourceHomepage, type, status, deadline, amount, description, eligibility, summary, sourceType, extractedAt) ==
    [id |-> id, title |-> title, url |-> url, sourceId |-> sourceId,
     sourceName |-> sourceName, sourceHomepage |-> sourceHomepage, type |-> type,
     status |-> status, deadline |-> deadline, amount |-> amount,
     description |-> description, eligibility |-> eligibility, summary |-> summary,
     sourceType |-> sourceType, extractedAt |-> extractedAt,
     urlCheck |-> None, fingerprint |-> None, lastSeenAt |-> None,
     isNew |-> None, isUpdated |-> None]

buildFingerprint_NoUrl(item) ==
    sha1(Join(<<item.title, "", OrEmpty(item.deadline), OrEmpty(item.amount),
                item.status, SliceTo(item.description, 320)>>, "|"))

buildFingerprint(item) ==
    sha1(Join(<<item.title, Href(item.url), OrEmpty(item.deadline), OrEmpty(item.amount),
                item.status, SliceTo(item.description, 320)>>, "|"))

\* Array.prototype.filter / map helpers on sequences
RECURSIVE SelectIdx(_, _, _)
SelectIdx(seq, keep, i) ==
    IF i > Len(seq) THEN << >>
    ELSE (IF i \in keep THEN <<seq[i]>> ELSE << >>) \o SelectIdx(seq, keep, i + 1)

\* [...new Set(seq)]: first occurrences, in order
Unique(seq) ==
    LET Keep(i) == \A j \in 1..(i - 1) : seq[j] /= seq[i]
    IN  SelectIdx(seq, {i \in 1..Len(seq) : Keep(i)}, 1)

NonEmpty(seq) ==
    LET Keep(i) == seq[i] /= ""
    IN  SelectIdx(seq, {i \in 1..Len(seq) : Keep(i)}, 1)

normalizeEligibility(eligibility) ==
    LET Norm(xs) == Unique(NonEmpty([i \in 1..Len(xs) |-> ToLowerCase(xs[i])]))
    IN  [levels |-> Norm(eligibility.levels),
         careerStages |-> Norm(eligibility.careerStages),
         nationalities |-> Norm(eligibility.nationalities),
         disciplines |-> Norm(eligibility.disciplines)]

Contains(seq, x) == \E i \in 1..Len(seq) : seq[i] = x

TypeLabel(type) ==
    CASE type = "grant" -> "Grant opportunity"
      [] type = "fellowship" -> "Fellowship"
      [] type = "scholarship" -> "Scholarship"
      [] type = "call" -> "Funding call"
      [] type = "award" -> "Award scheme"
      [] OTHER -> "Funding opportunity"

\* the text, model and reasoning of the heuristic summary (fit and watchOut,
\* which no later step reads, are left out)
heuristicSummary(item) ==
    LET levelText == IF Len(item.eligibility.levels) > 0
                     THEN Join(item.eligibility.levels, "/")
                     ELSE "no explicit level restriction"
        nationalityText == IF Contains(item.eligibility.nationalities, "any")
                           THEN "nationality rules appear flexible"
                           ELSE "targeted at " \o Join(item.eligibility.nationalities, "/")
        deadlineText == IF Truthy(item.deadline)
                        THEN "deadline: " \o Val(item.deadline)
                        ELSE "deadline must be confirmed on the official page"
    IN  [en |-> TypeLabel(item.type) \o ". " \o deadlineText \o ". Best suited for "
                \o levelText \o "; " \o nationalityText \o ".",
         model |-> "heuristic",
         reasoning |-> "Generated from title/content keyword heuristics: "
                       \o SliceTo(item.title, 80)]

-----------------------------------------------------------------------------
(* Consolidator *)

\* description?.length || 0, plus the deadline bonus
MergeScore(item) == Len(item.description) + (IF Truthy(item.deadline) THEN 30 ELSE 0)

MergeKey(item) == Href(canonicalizeUrl(item.url))

\* one iteration of the loop of mergeAndDedupe; byUrl is the Map's values in
\* insertion order (Map.set on an existing key keeps the key's position)
MergeStep(byUrl, item) ==
    IF \A j \in 1..Len(byUrl) : MergeKey(byUrl[j]) /= MergeKey(item)
    THEN Append(byUrl, item)
    ELSE LET j == CHOOSE k \in 1..Len(byUrl) : MergeKey(byUrl[k]) = MergeKey(item)
         IN  IF MergeScore(item) > MergeScore(byUrl[j])
             THEN [byUrl EXCEPT ![j] = item]
             ELSE byUrl

RECURSIVE MergeFrom(_, _, _)
MergeFrom(items, i, byUrl) ==
    IF i > Len(items) THEN byUrl
    ELSE MergeFrom(items, i + 1, MergeStep(byUrl, items[i]))

mergeAndDedupe_KeepAll(items) == items

mergeAndDedupe_LastWins(items) ==
    LET Keep(i) == \A j \in (i + 1)..Len(items) : MergeKey(items[j]) /= MergeKey(items[i])
    IN  SelectIdx(items, {i \in 1..Len(items) : Keep(i)}, 1)

mergeAndDedupe(items) == MergeFrom(items, 1, << >>)

\* previousMap.get(id): the Map constructor keeps the last entry of an id
PrevGet(previous, id) ==
    IF \E i \in 1..Len(previous) : previous[i].id = id
    THEN Some(previous[CHOOSE i \in 1..Len(previous) :
                         /\ previous[i].id = id
                         /\ \A j \in (i + 1)..Len(previous) : previous[j].id /= id])
    ELSE None

-----------------------------------------------------------------------------
(* Built-in static examples *)

StaticExample(title, sourceId, summary, level, type, url) ==
    [title |-> title, sourceId |-> sourceId, summary |-> summary, level |-> level,
     type |-> type, url |-> url]

staticExamples ==
    << StaticExample("UKRI Responsive Mode Research Grants", "ukri",
                     "Suitable for UK university research teams, typically supporting multi-disciplinary projects.",
                     <<"academic", "postdoc">>, "grant",
                     Url("https:", "www.ukri.org", "/opportunity/", "")),
       StaticExample("Royal Society University Research Fellowship", "royal-society",
                     "Suitable for early independent researchers with strong long-term potential and host support.",
                     <<"postdoc", "academic">>, "fellowship",
                     Url("https:", "royalsociety.org", "/grants/", "")),
       StaticExample("Commonwealth Master's Scholarships", "commonwealth",
                     "Suitable for applicants from Commonwealth countries pursuing a UK master's degree.",
                     <<"masters">>, "scholarship",
                     Url("https:", "cscuk.fcdo.gov.uk", "/scholarships/commonwealth-masters-scholarships/", "")),
       StaticExample("Chevening Scholarships", "chevening",
                     "Suitable for international master's applicants with leadership potential.",
                     <<"masters">>, "scholarship",
                     Url("https:", "www.chevening.org", "/scholarships/", "")),
       StaticExample("Wellcome Early-Career Researcher Schemes", "wellcome",
                     "Suitable for early-career researchers in health and life sciences.",
                     <<"postdoc", "academic">>, "grant",
                     Url("https:", "wellcome.org", "/grant-funding", "")) >>

buildFallbackItems(sources, now) ==
    [idx \in 1..Len(staticExamples) |->
        LET it == staticExamples[idx]
            source == FindSource(sources, it.sourceId)
            item == Item(sha1(Href(it.url) \o "|" \o it.title),
                         it.title, it.url, it.sourceId,
                         IF IsSome(source) THEN Val(source).name ELSE it.sourceId,
                         IF IsSome(source) /\ IsSome(Val(source).homepage)
                            THEN Val(source).homepage ELSE Some(it.url),
                         it.type, "unknown", None, None, it.summary,
                         Eligibility(it.level, <<"early">>, <<"any">>, <<"all disciplines">>),
                         Some([en |-> it.summary \o " (Fallback sample item: check the official link for current opening status.)",
                               model |-> "fallback",
                               reasoning |-> "No live source fetched"]),
                         "fallback", now)
        IN  [item EXCEPT !.fingerprint = Some(buildFingerprint(item) \o ToString(idx - 1))]]

-----------------------------------------------------------------------------
(* Carry-forward of the previous snapshot *)

\* the object built for one previous item in main()
carryForward(item, sources, now) ==
    LET source == FindSource(sources, item.sourceId)
        srcHome == IF IsSome(source) THEN Val(source).homepage ELSE None
        previousSourceHomepage ==
            IF IsSome(item.sourceHomepage) THEN Val(item.sourceHomepage)
            ELSE IF IsSome(srcHome) THEN Val(srcHome) ELSE item.url
        nextSourceHomepage == IF IsSome(srcHome) THEN Val(srcHome) ELSE previousSourceHomepage
        shouldRefreshUrlFromSource ==
            /\ item.sourceType = "fallback" \/ item.sourceType = "carried_forward"
            /\ Href(nextSourceHomepage) /= ""
    IN  [item EXCEPT !.url = IF shouldRefreshUrlFromSource
                              THEN canonicalizeUrl(nextSourceHomepage) ELSE @,
                     !.sourceHomepage = Some(nextSourceHomepage),
                     !.extractedAt = now,
                     !.sourceType = "carried_forward"]

-----------------------------------------------------------------------------
(* URL verifier: the pass over the finished checks *)

PassStatuses == {"reachable", "reachable_with_redirect", "reachable_restricted"}

\* checks[i] || { status: "check_error", ... }
CheckOrDefault(slot, item) ==
    IF IsSome(slot) THEN Val(slot)
    ELSE UrlCheck("check_error", item.url, None, None, FALSE, FALSE,
                  Some("No check result generated"))

ApplyCheck_KeepUrl(item, check) == [item EXCEPT !.urlCheck = Some(check)]

\* the in-place update of one input item: item.urlCheck = check, and item.url
\* rewritten to the final URL of a passing check
ApplyCheck(item, check) ==
    [item EXCEPT !.urlCheck = Some(check),
                 !.url = IF IsSome(check.finalUrl) /\ check.status \in PassStatuses
                         THEN canonicalizeUrl(Val(check.finalUrl)) ELSE @]

DroppedEntry(item, check) ==
    [id |-> item.id, title |-> item.title, url |-> item.url, sourceId |-> item.sourceId,
     reason |-> check.status,
     detail |-> IF Truthy(check.error) THEN Val(check.error)
                ELSE "HTTP " \o (IF IsSome(check.httpStatus)
                                 THEN ToString(Val(check.httpStatus)) ELSE "unknown")]

MarkUnchecked(item, status, error) ==
    [item EXCEPT !.urlCheck =
        Some(UrlCheck(status, item.url, Some(item.url), None, TRUE, FALSE, Some(error)))]

MarkLimit(item) ==
    MarkUnchecked(item, "unchecked_limit",
                  "Skipped URL check due to MAX_URL_CHECK_ITEMS=" \o ToString(MAX_URL_CHECK_ITEMS))

CountStatus(slots, items, status) ==
    Cardinality({i \in 1..Len(items) : CheckOrDefault(slots[i], items[i]).status = status})

VerifySummary(checked, reachable, withRedirect, restricted, dropped, networkErrors, networkUnavailable, strictMode) ==
    [checked |-> checked, reachable |-> reachable, reachableWithRedirect |-> withRedirect,
     reachableRestricted |-> restricted, dropped |-> dropped,
     networkErrors |-> networkErrors, networkUnavailable |-> networkUnavailable,
     strictMode |-> strictMode]

verifyFinish_DropOnOutage(inputItems, uncheckedTail, slots, strictMode) ==
    LET n == Len(inputItems)
        check(i) == CheckOrDefault(slots[i], inputItems[i])
        updated == [i \in 1..n |-> ApplyCheck(inputItems[i], check(i))]
        Pass(i) == check(i).status \in PassStatuses
        Fail(i) == ~Pass(i)
        keepItems == SelectIdx(updated, {i \in 1..n : Pass(i)}, 1)
        failed == SelectIdx([i \in 1..n |-> DroppedEntry(updated[i], check(i))],
                            {i \in 1..n : Fail(i)}, 1)
        tail == [i \in 1..Len(uncheckedTail) |-> MarkLimit(uncheckedTail[i])]
    IN  [threw |-> FALSE, error |-> "", items |-> keepItems \o tail, droppedItems |-> failed,
         summary |-> VerifySummary(n, CountStatus(slots, inputItems, "reachable"),
                                   CountStatus(slots, inputItems, "reachable_with_redirect"),
                                   CountStatus(slots, inputItems, "reachable_restricted"),
                                   Len(failed),
                                   CountStatus(slots, inputItems, "network_error"),
                                   FALSE, strictMode)]

verifyFinish_PassOnStrictOutage(inputItems, uncheckedTail, slots, strictMode) ==
    LET n == Len(inputItems)
        networkErrors == CountStatus(slots, inputItems, "network_error")
        tail == [i \in 1..Len(uncheckedTail) |-> MarkLimit(uncheckedTail[i])]
    IN  IF n > 0 /\ networkErrors = n
        THEN [threw |-> FALSE, error |-> "", items |-> [i \in 1..n |->
                 MarkUnchecked(ApplyCheck(inputItems[i], CheckOrDefault(slots[i], inputItems[i])),
                               "unchecked_network_unavailable",
                               "Skipped strict filtering because network was unavailable during URL checks")]
                 \o tail,
              droppedItems |-> << >>,
              summary |-> VerifySummary(n, 0, 0, 0, 0, networkErrors, TRUE, strictMode)]
        ELSE verifyFinish_DropOnOutage(inputItems, uncheckedTail, slots, strictMode)

\* verifyOpportunityUrls from the end of Promise.all on: slots is the checks
\* array; threw = TRUE is the thrown Error.
verifyFinish(inputItems, uncheckedTail, slots, strictMode) ==
    LET n == Len(inputItems)
        check(i) == CheckOrDefault(slots[i], inputItems[i])
        updated == [i \in 1..n |-> ApplyCheck(inputItems[i], check(i))]
        Pass(i) == check(i).status \in PassStatuses
        Fail(i) == ~Pass(i)
        keepItems == SelectIdx(updated, {i \in 1..n : Pass(i)}, 1)
        failed == SelectIdx([i \in 1..n |-> DroppedEntry(updated[i], check(i))],
                            {i \in 1..n : Fail(i)}, 1)
        checked == n
        networkErrors == CountStatus(slots, inputItems, "network_error")
        networkUnavailable == checked > 0 /\ networkErrors = checked
        tail == [i \in 1..Len(uncheckedTail) |-> MarkLimit(uncheckedTail[i])]
    IN  IF networkUnavailable /\ ~strictMode
        THEN [threw |-> FALSE, error |-> "", items |-> [i \in 1..n |->
                            MarkUnchecked(updated[i], "unchecked_network_unavailable",
                                "Skipped strict filtering because network was unavailable during URL checks")]
                        \o tail,
              droppedItems |-> << >>,
              summary |-> VerifySummary(checked, 0, 0, 0, 0, networkErrors,
                                        networkUnavailable, strictMode)]
        ELSE IF networkUnavailable /\ strictMode
        THEN [threw |-> TRUE,
              error |-> "URL validation failed: network unavailable and STRICT_URL_VALIDATION=true",
              items |-> << >>, droppedItems |-> << >>,
              summary |-> VerifySummary(checked, 0, 0, 0, 0, networkErrors,
                                        networkUnavailable, strictMode)]
        ELSE [threw |-> FALSE, error |-> "", items |-> keepItems \o tail,
              droppedItems |-> failed,
              summary |-> VerifySummary(checked,
                                        CountStatus(slots, inputItems, "reachable"),
                                        CountStatus(slots, inputItems, "reachable_with_redirect"),
                                        CountStatus(slots, inputItems, "reachable_restricted"),
                                        Len(failed), networkErrors, FALSE, strictMode)]

\* sourceMap.get(item.sourceId) || { id, homepage, includeHosts: [getHost(item.url)] }
SourceFor(item, sources) ==
    LET found == FindSource(sources, item.sourceId)
    IN  IF IsSome(found) THEN Val(found)
        ELSE [id |-> item.sourceId, name |-> "",
              homepage |-> IF IsSome(item.sourceHomepage) THEN item.sourceHomepage
                           ELSE Some(item.url),
              includeHosts |-> <<getHost(item.url)>>]

-----------------------------------------------------------------------------
(* Dates *)

Digits == "0123456789"

IsDigit(c) == \E i \in 1..10 : SubSeq(Digits, i, i) = c
DigitVal(c) == (CHOOSE i \in 1..10 : SubSeq(Digits, i, i) = c) - 1

RECURSIVE ParseDigits(_, _)
ParseDigits(s, acc) ==
    IF s = "" THEN acc ELSE ParseDigits(Tail(s), 10 * acc + DigitVal(Head(s)))

AllDigits(s) == \A i \in 1..Len(s) : IsDigit(SubSeq(s, i, i))

IsLeap(y) == (y % 4 = 0 /\ y % 100 /= 0) \/ y % 400 = 0

DaysInMonth(y, m) ==
    IF m = 2 THEN (IF IsLeap(y) THEN 29 ELSE 28)
    ELSE IF m \in {4, 6, 9, 11} THEN 30 ELSE 31

\* days from 1970-01-01 to the civil date y-m-d
DaysFromCivil(y, m, d) ==
    LET yy == IF m <= 2 THEN y - 1 ELSE y
        era == yy \div 400
        yoe == yy - era * 400
        mp == (m + 9) % 12
        doy == (153 * mp + 2) \div 5 + d - 1
        doe == yoe * 365 + yoe \div 4 - yoe \div 100 + doy
    IN  era * 146097 + doe - 719468

\* Date.parse(`${iso}T00:00:00Z`) in days since the epoch; None is NaN
DateParseDay(iso) ==
    IF /\ Len(iso) = 10
       /\ SubSeq(iso, 5, 5) = "-" /\ SubSeq(iso, 8, 8) = "-"
       /\ AllDigits(SubSeq(iso, 1, 4)) /\ AllDigits(SubSeq(iso, 6, 7))
       /\ AllDigits(SubSeq(iso, 9, 10))
    THEN LET y == ParseDigits(SubSeq(iso, 1, 4), 0)
             m == ParseDigits(SubSeq(iso, 6, 7), 0)
             d == ParseDigits(SubSeq(iso, 9, 10), 0)
         IN  IF m >= 1 /\ m <= 12 /\ d >= 1 /\ d <= DaysInMonth(y, m)
             THEN Some(DaysFromCivil(y, m, d)) ELSE None
    ELSE None

-----------------------------------------------------------------------------
(* Dates and status read from page text *)

\* the character at position i, "" outside the string
Ch(s, i) == IF i >= 1 /\ i <= Len(s) THEN SubSeq(s, i, i) ELSE ""

IsLetter(c) == \E i \in 1..26 : SubSeq(LowerLetters, i, i) = LowerChar(c)

\* \w of a regular expression
IsWordChar(c) == c /= "" /\ (IsDigit(c) \/ IsLetter(c) \/ c = "_")

\* \b just before position i
Boundary(s, i) == IsWordChar(Ch(s, i - 1)) /= IsWordChar(Ch(s, i))

\* \s of a regular expression
IsSpace(c) == c = " " \/ c = "\n" \/ c = "\t"

\* s.replace(<blanks>, " ").replace(/\s+/g, " ") on the characters a..b of s: a
\* character of `blanks` or a whitespace character becomes a space unless the
\* character before it becomes one as well (computed by halves)
RECURSIVE CollapseSpaces(_, _, _, _)
CollapseSpaces(s, blanks, a, b) ==
    IF a > b THEN ""
    ELSE IF a = b
    THEN LET Blank(c) == c \in blanks \/ IsSpace(c)
         IN  IF ~Blank(Ch(s, a)) THEN Ch(s, a)
             ELSE IF a > 1 /\ Blank(Ch(s, a - 1)) THEN "" ELSE " "
    ELSE LET h == (a + b) \div 2
         IN  CollapseSpaces(s, blanks, a, h) \o CollapseSpaces(s, blanks, h + 1, b)

\* String.prototype.trim() of a text whose whitespace is single spaces
TrimSpaces(s) ==
    LET a == IF Ch(s, 1) = " " THEN 2 ELSE 1
        b == IF Ch(s, Len(s)) = " " THEN Len(s) - 1 ELSE Len(s)
    IN  SubSeq(s, a, b)

\* text.replace(/,/g, " ").replace(/\s+/g, " ").trim()
NormalizeText(text) == TrimSpaces(CollapseSpaces(text, {","}, 1, Len(text)))

MONTHS ==
    [ january |-> 1, jan |-> 1, february |-> 2, feb |-> 2, march |-> 3, mar |-> 3,
      april |-> 4, apr |-> 4, may |-> 5, june |-> 6, jun |-> 6, july |-> 7, jul |-> 7,
      august |-> 8, aug |-> 8, september |-> 9, sept |-> 9, sep |-> 9,
      october |-> 10, oct |-> 10, november |-> 11, nov |-> 11, december |-> 12, dec |-> 12 ]

\* (20\d{2}) at position p
YearTok(s, p) ==
    /\ Ch(s, p) = "2" /\ Ch(s, p + 1) = "0"
    /\ IsDigit(Ch(s, p + 2)) /\ IsDigit(Ch(s, p + 3))

\* (0?[1-9]|1[0-2]) matching n characters at position p
MonthTok(s, p, n) ==
    LET a == Ch(s, p)
        b == Ch(s, p + 1)
    IN  \/ n = 1 /\ IsDigit(a) /\ a /= "0"
        \/ n = 2 /\ a = "0" /\ IsDigit(b) /\ b /= "0"
        \/ n = 2 /\ a = "1" /\ b \in {"0", "1", "2"}

\* (0?[1-9]|[12]\d|3[01]) matching n characters at position p
DayTok(s, p, n) ==
    LET a == Ch(s, p)
        b == Ch(s, p + 1)
    IN  \/ n = 1 /\ IsDigit(a) /\ a /= "0"
        \/ n = 2 /\ a = "0" /\ IsDigit(b) /\ b /= "0"
        \/ n = 2 /\ a \in {"1", "2"} /\ IsDigit(b)
        \/ n = 2 /\ a = "3" /\ b \in {"0", "1"}

Num(s, p, n) == ParseDigits(SubSeq(s, p, p + n - 1), 0)

Pad(n, width) ==
    IF width = 4 /\ n < 1000 THEN "0" \o ToString(n)
    ELSE IF width = 2 /\ n < 10 THEN "0" \o ToString(n)
    ELSE ToString(n)

\* new Date(Date.UTC(year, month - 1, day)).toISOString().slice(0, 10) for
\* 1 <= month <= 12 and 1 <= day <= 31: a day past the end of the month rolls
\* over into the next month, and the time value is never NaN
toIsoDate(year, month, day) ==
    LET dim == DaysInMonth(year, month)
    IN  IF day <= dim
        THEN Some(Pad(year, 4) \o "-" \o Pad(month, 2) \o "-" \o Pad(day, 2))
        ELSE Some(Pad(year, 4) \o "-" \o Pad(month + 1, 2) \o "-" \o Pad(day - dim, 2))

\* the two token lengths with which a pattern matches at p (at most one pair does)
TokLens == {1, 2} \X {1, 2}

\* /\b(20\d{2})[-\/](0?[1-9]|1[0-2])[-\/](0?[1-9]|[12]\d|3[01])\b/ at position p
IsoAt(s, p) ==
    { ln \in TokLens :
        /\ Boundary(s, p) /\ YearTok(s, p)
        /\ Ch(s, p + 4) \in {"-", "/"}
        /\ MonthTok(s, p + 5, ln[1])
        /\ Ch(s, p + 5 + ln[1]) \in {"-", "/"}
        /\ DayTok(s, p + 6 + ln[1], ln[2])
        /\ Boundary(s, p + 6 + ln[1] + ln[2]) }

\* /\b(0?[1-9]|[12]\d|3[01])[\/\-.](0?[1-9]|1[0-2])[\/\-.](20\d{2})\b/ at position p
DmyAt(s, p) ==
    { ln \in TokLens :
        /\ Boundary(s, p) /\ DayTok(s, p, ln[1])
        /\ Ch(s, p + ln[1]) \in {"/", "-", "."}
        /\ MonthTok(s, p + ln[1] + 1, ln[2])
        /\ Ch(s, p + ln[1] + 1 + ln[2]) \in {"/", "-", "."}
        /\ YearTok(s, p + ln[1] + 2 + ln[2])
        /\ Boundary(s, p + ln[1] + 6 + ln[2]) }

\* a month name of the patterns at position p, case-insensitive
NameAt(s, p, name) == ToLowerCase(SubSeq(s, p, Min(p + Len(name) - 1, Len(s)))) = name

\* /\b(day)\s+(month name)\s+(20\d{2})\b/i at position p: <<day length, name>>
DayMonthAt(s, p) ==
    { dn \in {1, 2} \X DOMAIN MONTHS :
        /\ Boundary(s, p) /\ DayTok(s, p, dn[1])
        /\ Ch(s, p + dn[1]) = " "
        /\ NameAt(s, p + dn[1] + 1, dn[2])
        /\ Ch(s, p + dn[1] + 1 + Len(dn[2])) = " "
        /\ YearTok(s, p + dn[1] + 2 + Len(dn[2]))
        /\ Boundary(s, p + dn[1] + 6 + Len(dn[2])) }

\* /\b(month name)\s+(day)\s+(20\d{2})\b/i at position p: <<day length, name>>
MonthDayAt(s, p) ==
    { dn \in {1, 2} \X DOMAIN MONTHS :
        /\ Boundary(s, p) /\ NameAt(s, p, dn[2])
        /\ Ch(s, p + Len(dn[2])) = " "
        /\ DayTok(s, p + Len(dn[2]) + 1, dn[1])
        /\ Ch(s, p + Len(dn[2]) + 1 + dn[1]) = " "
        /\ YearTok(s, p + Len(dn[2]) + 2 + dn[1])
        /\ Boundary(s, p + Len(dn[2]) + 6 + dn[1]) }

\* position of the leftmost match, 0 when there is none
FirstAt(s, Hits) ==
    IF \E p \in 1..Len(s) : Hits[p] /= {}
    THEN CHOOSE p \in 1..Len(s) : Hits[p] /= {} /\ \A q \in 1..(p - 1) : Hits[q] = {}
    ELSE 0

parseDateFromText(text) ==
    IF text = "" THEN None
    ELSE
    LET s == NormalizeText(text)
        iso == [p \in 1..Len(s) |-> IsoAt(s, p)]
        dmy == [p \in 1..Len(s) |-> DmyAt(s, p)]
        dm == [p \in 1..Len(s) |-> DayMonthAt(s, p)]
        md == [p \in 1..Len(s) |-> MonthDayAt(s, p)]
        pIso == FirstAt(s, iso)
        pDmy == FirstAt(s, dmy)
        pDm == FirstAt(s, dm)
        pMd == FirstAt(s, md)
    IN  IF pIso > 0
        THEN LET ln == CHOOSE l \in iso[pIso] : TRUE
             IN  toIsoDate(Num(s, pIso, 4), Num(s, pIso + 5, ln[1]),
                           Num(s, pIso + 6 + ln[1], ln[2]))
        ELSE IF pDmy > 0
        THEN LET ln == CHOOSE l \in dmy[pDmy] : TRUE
             IN  toIsoDate(Num(s, pDmy + ln[1] + 2 + ln[2], 4),
                           Num(s, pDmy + ln[1] + 1, ln[2]), Num(s, pDmy, ln[1]))
        ELSE IF pDm > 0
        THEN LET dn == CHOOSE l \in dm[pDm] : TRUE
             IN  toIsoDate(Num(s, pDm + dn[1] + 2 + Len(dn[2]), 4), MONTHS[dn[2]],
                           Num(s, pDm, dn[1]))
        ELSE IF pMd > 0
        THEN LET dn == CHOOSE l \in md[pMd] : TRUE
             IN  toIsoDate(Num(s, pMd + Len(dn[2]) + 2 + dn[1], 4), MONTHS[dn[2]],
                           Num(s, pMd + Len(dn[2]) + 1, dn[1]))
        ELSE None

\* (deadline|closing date|applications? close(?:s|d)?|closes?|closing), in the
\* order the alternatives are tried
DeadlineWords ==
    << "deadline", "closing date", "applications closes", "applications closed",
       "applications close", "application closes", "application closed",
       "application close", "closes", "close", "closing" >>

\* [^\.\n;]
SpanChar(c) == c /= "" /\ c /= "." /\ c /= "\n" /\ c /= ";"

\* length of the run of [^\.\n;] that starts at position p, at most 80
RECURSIVE SpanLen(_, _, _)
SpanLen(s, p, n) == IF n < 80 /\ SpanChar(Ch(s, p + n)) THEN SpanLen(s, p, n + 1) ELSE n

RECURSIVE SpaceLen(_, _, _)
SpaceLen(s, p, n) == IF IsSpace(Ch(s, p + n)) THEN SpaceLen(s, p, n + 1) ELSE n

\* where group 2 of the targeted pattern can start after a keyword that ends just
\* before position q: \s*[:\-]?\s* followed by at least 4 characters of the span
SpanStarts(s, q) ==
    LET k1 == SpaceLen(s, q, 0)
        mark == {a \in 0..k1 : Ch(s, q + a) \in {":", "-"}}
        plain == {q + a : a \in 0..k1}
        marked == UNION {{q + a + 1 + b : b \in 0..SpaceLen(s, q + a + 1, 0)} : a \in mark}
    IN  {t \in plain \cup marked : SpanLen(s, t, 0) >= 4}

\* the start the backtracking search reaches first: the quantifiers are greedy,
\* so of the possible starts it is the rightmost one
SpanStart(s, q) == CHOOSE t \in SpanStarts(s, q) : \A u \in SpanStarts(s, q) : u <= t

\* the keyword alternatives that match at position p with a span after them
WordsAt(s, p) ==
    { i \in 1..Len(DeadlineWords) :
        /\ NameAt(s, p, DeadlineWords[i])
        /\ SpanStarts(s, p + Len(DeadlineWords[i])) /= {} }

\* targeted?.[2]: group 2 of the leftmost match, None when nothing matches
TargetedSpan(text) ==
    LET hits == [p \in 1..Len(text) |-> WordsAt(text, p)]
        p == FirstAt(text, hits)
    IN  IF p = 0 THEN None
        ELSE LET i == CHOOSE i \in hits[p] : \A j \in hits[p] : i <= j
                 t == SpanStart(text, p + Len(DeadlineWords[i]))
             IN  Some(SubSeq(text, t, t + SpanLen(text, t, 0) - 1))

extractDeadline(text) ==
    IF text = "" THEN None
    ELSE LET targeted == TargetedSpan(text)
             parsed == IF IsSome(targeted) THEN parseDateFromText(Val(targeted)) ELSE None
         IN  IF IsSome(parsed) THEN parsed ELSE parseDateFromText(text)

MsPerDay == 86400000

\* a time value in milliseconds since the epoch, kept as <<days, milliseconds of
\* the day>> with 0 <= milliseconds of the day < MsPerDay
Before(a, b) == a[1] < b[1] \/ (a[1] = b[1] /\ a[2] < b[2])

\* Date.parse(`${deadlineIso}T23:59:59Z`); None is NaN
DateParseEndOfDay(iso) ==
    LET day == DateParseDay(iso)
    IN  IF IsSome(day) THEN Some(<<Val(day), MsPerDay - 1000>>) ELSE None

\* inferStatus where "open" language is not overridden by a past deadline
inferStatus_OpenWins(text, deadlineIso, dateNow) ==
    LET lower == ToLowerCase(text)
        deadline == IF Truthy(deadlineIso) THEN DateParseEndOfDay(Val(deadlineIso)) ELSE None
        past == IsSome(deadline) /\ Before(Val(deadline), dateNow)
    IN  IF Includes(lower, "closed") THEN "closed"
        ELSE IF Includes(lower, "open") THEN "open"
        ELSE IF Truthy(deadlineIso) THEN (IF past THEN "closed" ELSE "open")
        ELSE "unknown"

\* dateNow is the value of Date.now() at the call
inferStatus(text, deadlineIso, dateNow) ==
    LET lower == ToLowerCase(text)
        deadline == IF Truthy(deadlineIso) THEN DateParseEndOfDay(Val(deadlineIso)) ELSE None
        past == IsSome(deadline) /\ Before(Val(deadline), dateNow)
    IN  IF \/ Includes(lower, "closed") \/ Includes(lower, "applications closed")
           \/ Includes(lower, "this call is closed")
        THEN "closed"
        ELSE IF \/ Includes(lower, "open") \/ Includes(lower, "applications open")
                \/ Includes(lower, "now open")
        THEN (IF Truthy(deadlineIso) /\ past THEN "closed" ELSE "open")
        ELSE IF Truthy(deadlineIso) THEN (IF past THEN "closed" ELSE "open")
        ELSE "unknown"

-----------------------------------------------------------------------------
(* Daily digest *)

\* String(text || "").replace(/[\[\]()]/g, " ").replace(/\s+/g, " ").trim()
escapeMd(text) == TrimSpaces(CollapseSpaces(text, {"[", "]", "(", ")"}, 1, Len(text)))

\* Math.ceil((Date.parse(`${isoDate}T23:59:59Z`) - Date.now()) / (24 * 3600 * 1000))
daysUntil(isoDate, dateNow) ==
    LET target == DateParseEndOfDay(isoDate)
    IN  IF ~IsSome(target) THEN 9999
        ELSE Val(target)[1] - dateNow[1] + (IF dateNow[2] < Val(target)[2] THEN 1 ELSE 0)

\* Array.prototype.sort((a, b) => a.daysLeft - b.daysLeft): stable
RECURSIVE SortByDaysLeft(_)
SortByDaysLeft(list) ==
    IF Len(list) <= 1 THEN list
    ELSE LET rest == SortByDaysLeft(SubSeq(list, 1, Len(list) - 1))
             x == list[Len(list)]
             k == Cardinality({i \in 1..Len(rest) : rest[i].daysLeft <= x.daysLeft})
         IN  SubSeq(rest, 1, k) \o <<x>> \o SubSeq(rest, k + 1, Len(rest))

NoNewItemsLine == "- No new items were detected today (source updates may be limited or blocked)."

DigestTopN == 12

\* the closingSoon list of createDigest: the open items with a deadline, with
\* their daysLeft, those of 0..14 days, sorted by daysLeft
closingSoon(items, dateNow) ==
    LET dated == SelectIdx(items, {i \in 1..Len(items) :
                                     Truthy(items[i].deadline) /\ items[i].status = "open"}, 1)
        withDays == [i \in 1..Len(dated) |->
                       [item |-> dated[i], daysLeft |-> daysUntil(Val(dated[i].deadline), dateNow)]]
    IN  SortByDaysLeft(SelectIdx(withDays,
                           {i \in 1..Len(withDays) :
                              withDays[i].daysLeft >= 0 /\ withDays[i].daysLeft <= 14}, 1))

\* today is new Date().toISOString().slice(0, 10) and dateNow is Date.now()
\* the body of createDigest; top is the 12 of slice(0, 12)
DigestOf(items, previous, today, dateNow, top) ==
    LET newIdx == {i \in 1..Len(items) : ~IsSome(PrevGet(previous, items[i].id))}
        updatedIdx == {i \in 1..Len(items) :
                         /\ IsSome(PrevGet(previous, items[i].id))
                         /\ Val(PrevGet(previous, items[i].id)).fingerprint /= items[i].fingerprint}
        newItems == SelectIdx(items, newIdx, 1)
        updatedItems == SelectIdx(items, updatedIdx, 1)
        closing == closingSoon(items, dateNow)
        listedNew == SubSeq(newItems, 1, Min(top, Len(newItems)))
        listedSoon == SubSeq(closing, 1, Min(top, Len(closing)))
        newLines ==
            IF Len(newItems) = 0 THEN <<NoNewItemsLine>>
            ELSE [i \in 1..Len(listedNew) |->
                    LET item == listedNew[i]
                    IN  "- [" \o escapeMd(item.title) \o "](" \o Href(item.url) \o ") | "
                        \o item.sourceName \o " | Deadline: "
                        \o (IF Truthy(item.deadline) THEN Val(item.deadline) ELSE "TBC")
                        \o " | " \o escapeMd(IF IsSome(item.summary) THEN Val(item.summary).en ELSE "")]
        soonLines ==
            IF Len(closing) = 0 THEN <<"- No opportunities close within the next 14 days.\n">>
            ELSE [i \in 1..Len(listedSoon) |->
                    LET item == listedSoon[i].item
                    IN  "- [" \o escapeMd(item.title) \o "](" \o Href(item.url) \o ") | "
                        \o item.sourceName \o " | D-" \o ToString(listedSoon[i].daysLeft)]
        lines ==
            << "# UK Academic Funding Daily Brief (" \o today \o ")",
               "",
               "- New opportunities: **" \o ToString(Len(newItems)) \o "**",
               "- Updated opportunities: **" \o ToString(Len(updatedItems)) \o "**",
               "- Closing within 14 days: **" \o ToString(Len(closing)) \o "**",
               "",
               "## New Opportunities (Top 12)" >>
            \o newLines
            \o << "", "## Closing Soon (Within 14 Days)" >>
            \o soonLines
            \o << "", "---",
                  "This brief is auto-generated by GitHub Actions. Always verify details on the official source page.\n" >>
    IN  [subject |-> "UK Funding Daily Brief | " \o today \o " | "
                     \o ToString(Len(newItems)) \o " new",
         markdown |-> Join(lines, "\n"),
         stats |-> [newItems |-> Len(newItems), updatedItems |-> Len(updatedItems),
                    closingSoon |-> Len(closing)]]

\* createDigest that lists every new item
createDigest_ListAll(items, previous, today, dateNow) ==
    DigestOf(items, previous, today, dateNow, Len(items))

createDigest(items, previous, today, dateNow) ==
    DigestOf(items, previous, today, dateNow, DigestTopN)

-----------------------------------------------------------------------------
(* Ordering of the final list *)

CollationOrder == " '-0123456789abcdefghijklmnopqrstuvwxyz"

CharRank(c) ==
    LET l == LowerChar(c)
    IN  IF \E i \in 1..Len(CollationOrder) : SubSeq(CollationOrder, i, i) = l
        THEN CHOOSE i \in 1..Len(CollationOrder) : SubSeq(CollationOrder, i, i) = l
        ELSE 0

\* a.localeCompare(b), on the characters the model's titles use: -1, 0 or 1
RECURSIVE localeCompare(_, _)
localeCompare(a, b) ==
    IF a = "" /\ b = "" THEN 0
    ELSE IF a = "" THEN -1
    ELSE IF b = "" THEN 1
    ELSE IF CharRank(Head(a)) < CharRank(Head(b)) THEN -1
    ELSE IF CharRank(Head(a)) > CharRank(Head(b)) THEN 1
    ELSE localeCompare(Tail(a), Tail(b))

StatusRank(status) ==
    CASE status = "open" -> 0 [] status = "unknown" -> 1 [] status = "closed" -> 2
      [] OTHER -> 3

\* the comparator of sortItems: negative, zero or positive.  A missing
\* deadline is Infinity; a deadline Date.parse rejects is NaN, and a NaN
\* comparator result orders nothing.
SortCompare(a, b) ==
    LET sa == StatusRank(a.status)
        sb == StatusRank(b.status)
        hasA == Truthy(a.deadline)
        hasB == Truthy(b.deadline)
        da == IF hasA THEN DateParseDay(Val(a.deadline)) ELSE None
        db == IF hasB THEN DateParseDay(Val(b.deadline)) ELSE None
    IN  IF sa /= sb THEN sa - sb
        ELSE IF ~hasA /\ ~hasB THEN localeCompare(a.title, b.title)
        ELSE IF (hasA /\ da = None) \/ (hasB /\ db = None) THEN 0
        ELSE IF ~hasA THEN 1
        ELSE IF ~hasB THEN -1
        ELSE IF Val(da) /= Val(db) THEN Val(da) - Val(db)
        ELSE localeCompare(a.title, b.title)

\* stable insertion of x after every element that is not greater than it
InsertSorted(sorted, x) ==
    LET k == IF \E j \in 1..Len(sorted) : SortCompare(sorted[j], x) > 0
             THEN CHOOSE j \in 1..Len(sorted) :
                      /\ SortCompare(sorted[j], x) > 0
                      /\ \A i \in 1..(j - 1) : SortCompare(sorted[i], x) <= 0
             ELSE Len(sorted) + 1
    IN  SubSeq(sorted, 1, k - 1) \o <<x>> \o SubSeq(sorted, k, Len(sorted))

RECURSIVE SortFrom(_, _, _)
SortFrom(items, i, sorted) ==
    IF i > Len(items) THEN sorted
    ELSE SortFrom(items, i + 1, InsertSorted(sorted, items[i]))

\* Array.prototype.sort with the comparator above (a stable sort)
sortItems(items) == SortFrom(items, 1, << >>)

-----------------------------------------------------------------------------
(* Summaries *)

normalizeWhitespace(text) == TrimSpaces(CollapseSpaces(text, {}, 1, Len(text)))

\* JSON values of the answer's summary field (a number is kept as its digits)
JsString(s) == [t |-> "string", v |-> s]
JsNumber(n) == [t |-> "number", v |-> ToString(n)]
JsTruthy(x) == IF x.t = "number" THEN x.v /= "0" ELSE x.v /= ""

\* what the request to one candidate model does: fetch rejects, or a response
\* with response.ok and a body; body is None when response.json() throws, and
\* otherwise holds json, the object that extractJsonFromText gets out of the
\* chat content (None: no {...} in it, or JSON.parse throws)
AiRejects == [threw |-> TRUE, ok |-> FALSE, body |-> None]
AiResponse(ok, body) == [threw |-> FALSE, ok |-> ok, body |-> body]
AiContent(json) == Some([json |-> json])
AiObject(summary_en, eligibility) == Some([summary_en |-> summary_en, eligibility |-> eligibility])

\* the body of the try block of summarizeWithAI for one model: None when it
\* throws (the catch logs a warning and the loop goes on)
TryModel(item, model, answer) ==
    IF answer.threw \/ ~answer.ok THEN None
    ELSE IF ~IsSome(answer.body) THEN None
    ELSE IF ~IsSome(Val(answer.body).json) THEN None
    ELSE LET parsed == Val(Val(answer.body).json)
             raw == parsed.summary_en
             truthy == IsSome(raw) /\ JsTruthy(Val(raw))
         IN  \* normalizeWhitespace of a value that is no string: TypeError
             IF truthy /\ Val(raw).t /= "string" THEN None
             ELSE LET summaryEn == IF truthy THEN normalizeWhitespace(Val(raw).v) ELSE ""
                  IN  Some([en |-> IF summaryEn /= "" THEN summaryEn
                                   ELSE heuristicSummary(item).en,
                            model |-> model,
                            reasoning |-> "AI generated via OpenRouter",
                            eligibility |-> parsed.eligibility])

Heuristic(item) == [en |-> heuristicSummary(item).en, model |-> heuristicSummary(item).model, reasoning |-> heuristicSummary(item).reasoning, eligibility |-> None]

\* the loop over the candidate models, from model i on
RECURSIVE TryModels(_, _, _, _)
TryModels(item, models, answers, i) ==
    IF i > Len(models) THEN Heuristic(item)
    ELSE LET tried == TryModel(item, models[i], answers[models[i]])
         IN  IF IsSome(tried) THEN Val(tried) ELSE TryModels(item, models, answers, i + 1)

\* summarizeWithAI that gives up after the first candidate model
summarizeWithAI_FirstModelOnly(item, apiKey, models, answers) ==
    IF ~apiKey THEN Heuristic(item)
    ELSE TryModels(item, SubSeq(models, 1, 1), answers, 1)

\* apiKey: OPENROUTER_API_KEY is set; models: getOpenRouterModelCandidates();
\* answers[model]: what the request to that model does
summarizeWithAI(item, apiKey, models, answers) ==
    IF ~apiKey THEN Heuristic(item)
    ELSE TryModels(item, models, answers, 1)

\* the first loop of enrichWithSummaries: reuse of the previous summary
ShouldReuse(item, previous) ==
    LET prev == PrevGet(previous, item.id)
    IN  /\ IsSome(prev)
        /\ Val(prev).fingerprint = item.fingerprint
        /\ IsSome(Val(prev).summary)

\* queue.slice(0, MAX_AI_ITEMS), as the set of the positions in `items`
trimmedQueue(items, previous) ==
    LET InQueue(i) == ~ShouldReuse(items[i], previous)
        \* position of item i in the queue, counted from 1
        QueuePos(i) == Cardinality({j \in 1..i : InQueue(j)})
    IN  {i \in 1..Len(items) : InQueue(i) /\ QueuePos(i) <= MAX_AI_ITEMS}

\* the variant that summarises every item again
enrichWithSummaries_NoReuse(items, previous, apiKey, models, answers) ==
    LET n == Len(items)
        asked == trimmedQueue(items, << >>)
        step2 == [i \in 1..n |->
                    IF i \in asked
                    THEN LET aiSummary == summarizeWithAI(items[i], apiKey, models, answers)
                         IN  [items[i] EXCEPT
                                !.summary = Some([en |-> aiSummary.en, model |-> aiSummary.model,
                                                  reasoning |-> aiSummary.reasoning])]
                    ELSE items[i]]
    IN  [i \in 1..n |->
            LET e == [step2[i] EXCEPT !.eligibility = normalizeEligibility(@)]
            IN  IF IsSome(e.summary) THEN e
                ELSE [e EXCEPT !.summary = Some(heuristicSummary(e))]]

enrichWithSummaries(items, previous, apiKey, models, answers) ==
    LET n == Len(items)
        asked == trimmedQueue(items, previous)
        step1 == [i \in 1..n |->
                    IF ShouldReuse(items[i], previous)
                    THEN LET prev == Val(PrevGet(previous, items[i].id))
                         IN  [items[i] EXCEPT !.summary = prev.summary,
                                              !.eligibility = normalizeEligibility(prev.eligibility)]
                    ELSE items[i]]
        step2 == [i \in 1..n |->
                    IF i \in asked
                    THEN LET aiSummary == summarizeWithAI(step1[i], apiKey, models, answers)
                         IN  [step1[i] EXCEPT
                                !.summary = Some([en |-> aiSummary.en, model |-> aiSummary.model,
                                                  reasoning |-> aiSummary.reasoning]),
                                !.eligibility = IF IsSome(aiSummary.eligibility)
                                                THEN normalizeEligibility(Val(aiSummary.eligibility))
                                                ELSE normalizeEligibility(@)]
                    ELSE step1[i]]
    IN  [i \in 1..n |->
            LET e == [step2[i] EXCEPT !.eligibility = normalizeEligibility(@)]
            IN  IF IsSome(e.summary) THEN e
                ELSE [e EXCEPT !.summary = Some(heuristicSummary(e))]]

-----------------------------------------------------------------------------
(* Bounds and inputs of the model *)

\* number of pipeline runs explored
MaxRuns == 3

LinkA == Url("https:", "www.ukri.org", "/opportunity/a", "")
LinkB == Url("https:", "www.ukri.org", "/opportunity/b", "")
LinkEvil == Url("https:", "example.com", "/landing", "")

\* an item as parseRssItems / parseSource assemble it from a page of `source`
LiveItem(source, link, title, type, status, deadline, amount, description, eligibility, sourceType, now) ==
    Item(sha1(source.id \o "|" \o Href(link) \o "|" \o title),
         title, canonicalizeUrl(link), source.id, source.name, source.homepage,
         type, status, deadline, amount, description, eligibility, None, sourceType, now)

DraftA(now) ==
    LiveItem(SrcUkri, LinkA, "AI Research Fellowship", "fellowship", "unknown", None, None,
             "Funding for postdoctoral AI and data science projects.",
             Eligibility(<<"postdoc", "academic">>, <<"early">>, <<"any">>,
                         <<"computer science and ai">>),
             "detail", now)

\* the same page as DraftA, linked a second time with a fragment and a shorter text
DraftA2(now) ==
    LiveItem(SrcUkri, [LinkA EXCEPT !.hash = "apply"], "AI Fellowship: apply", "fellowship",
             "unknown", None, None, "Apply for the AI fellowship.",
             Eligibility(<<"postdoc">>, <<"early">>, <<"any">>, <<"computer science and ai">>),
             "detail", now)

DraftB(now) ==
    LiveItem(SrcUkri, LinkB, "Biology Doctoral Grant", "grant", "open",
             Some("2026-03-01"), Some("GBP 5,000"),
             "PhD funding in molecular biology.",
             Eligibility(<<"phd">>, <<"early">>, <<"uk">>, <<"life sciences">>),
             "detail", now)

\* a link of the listing page that leaves the hosts of the source
DraftEvil(now) ==
    LiveItem(SrcUkri, LinkEvil, "Partner Award", "award", "unknown", None, None,
             "An award run by a partner organisation.",
             Eligibility(<<"academic">>, <<"any">>, <<"any">>, <<"all disciplines">>),
             "detail", now)

DraftRoyal(now) ==
    LiveItem(SrcRoyal, Url("https:", "royalsociety.org", "/grants/newton", ""),
             "Newton International Fellowship", "fellowship", "unknown", None, None,
             "Fellowships for researchers from overseas.",
             Eligibility(<<"postdoc">>, <<"early">>, <<"international">>, <<"all disciplines">>),
             "rss", now)

\* what parseSource can return for each configured source, in one run
LiveYields(source, now) ==
    IF source.id = "ukri" THEN { << >>, <<DraftA(now), DraftA2(now), DraftB(now)>>, <<DraftEvil(now)>> }
    ELSE { << >> }

NetworkFailure == Threw("fetch failed")
AbortFailure == Threw("This operation was aborted")
OtherFailure == Threw("Request cannot be constructed from a URL that includes credentials")

\* responses the network gives to a HEAD and to a GET of url during a
\* pipeline run
RunHeadResponses(url) ==
    { Resp(200, url), Resp(200, LinkB), Resp(404, url), Resp(405, url), NetworkFailure }

RunGetResponses(url) == { Resp(200, url), Resp(404, url) }

\* responses given to a direct call of checkOpportunityUrl
ProbeStatuses == {200, 401, 403, 404, 405, 429, 500}
ProbeFinalUrls(url) == { url, [url EXCEPT !.pathname = @ \o "/"], LinkB, LinkEvil }
ProbeResponses(url) ==
    { Resp(st, f) : st \in ProbeStatuses, f \in ProbeFinalUrls(url) }
    \cup { NetworkFailure, AbortFailure, OtherFailure }

\* responses given to the worker pool when verifyOpportunityUrls is called directly
PoolHeadResponses(url) ==
    { Resp(200, url), Resp(200, LinkB), Resp(200, LinkEvil), Resp(403, url), Resp(404, url),
      Resp(405, url), NetworkFailure, OtherFailure }

PoolGetResponses(url) == { Resp(200, url), Resp(403, url), Resp(404, url), AbortFailure }

HeadResponses(url) == IF pc = "verify" THEN RunHeadResponses(url) ELSE PoolHeadResponses(url)
GetResponses(url) == IF pc = "verify" THEN RunGetResponses(url) ELSE PoolGetResponses(url)

-----------------------------------------------------------------------------
(* The worker pool of verifyOpportunityUrls *)

Workers == 1..URL_CHECK_CONCURRENCY

\* nothing taken, written or requested: the verifier is not running
NoProbes == << >>

\* the variant without the cap
InputItems_NoCap(items) == items

\* items.slice(0, MAX_URL_CHECK_ITEMS) and items.slice(MAX_URL_CHECK_ITEMS)
InputItems(items) == SubSeq(items, 1, Min(MAX_URL_CHECK_ITEMS, Len(items)))
UncheckedTail(items) == SubSeq(items, Min(MAX_URL_CHECK_ITEMS, Len(items)) + 1, Len(items))

\* the state of a worker after it took `index` (0-based) and called
\* checkOpportunityUrl, up to the first await
TakenPc(inputItems, sources, index) ==
    IF index >= Len(inputItems) THEN "done"
    ELSE IF IsSome(checkWithoutProbe(inputItems[index + 1],
                                     SourceFor(inputItems[index + 1], sources)))
         THEN "settle" ELSE "head"

\* the variant in which every worker starts on index 0
PoolStartState_SameIndex(items, sources) ==
    LET inputItems == InputItems(items)
        k == Min(URL_CHECK_CONCURRENCY, Len(inputItems))
    IN  [checks |-> [i \in 1..Len(inputItems) |-> None],
         cursor |-> k,
         widx |-> [w \in Workers |-> 0],
         wpc |-> [w \in Workers |->
                    IF w <= k THEN TakenPc(inputItems, sources, 0) ELSE "off"],
         whead |-> [w \in Workers |-> None],
         probes |-> [i \in 1..Len(items) |->
                      [takes |-> IF i = 1 THEN [w \in 1..k |-> w] ELSE << >>,
                       writes |-> << >>, requests |-> << >>]]]

\* verifyOpportunityUrls up to Promise.all: the empty checks array, and the
\* workers started one after the other, each taking the next index
PoolStartState(items, sources) ==
    LET inputItems == InputItems(items)
        k == Min(URL_CHECK_CONCURRENCY, Len(inputItems))
    IN  [checks |-> [i \in 1..Len(inputItems) |-> None],
         cursor |-> k,
         widx |-> [w \in Workers |-> IF w <= k THEN w - 1 ELSE 0],
         wpc |-> [w \in Workers |->
                    IF w <= k THEN TakenPc(inputItems, sources, w - 1) ELSE "off"],
         whead |-> [w \in Workers |-> None],
         probes |-> [i \in 1..Len(items) |->
                      [takes |-> IF i <= k THEN <<i>> ELSE << >>,
                       writes |-> << >>, requests |-> << >>]]]

PoolStart(items, sources) ==
    LET s == PoolStartState(items, sources)
    IN  /\ checks' = s.checks
        /\ cursor' = s.cursor
        /\ widx' = s.widx
        /\ wpc' = s.wpc
        /\ whead' = s.whead
        /\ probes' = s.probes

\* a request made for the item at position i (1-based) and how it settled
Requested(log, i, method, resp) ==
    [log EXCEPT ![i].requests = Append(@, [method |-> method, resp |-> resp])]

\* worker w wrote the slot of position i
Written(log, i, w) == [log EXCEPT ![i].writes = Append(@, w)]

\* worker w read `index` from the cursor and went on to inputItems[index]
Taken(log, index, w) ==
    IF index < Len(InputItems(deduped)) THEN [log EXCEPT ![index + 1].takes = Append(@, w)]
    ELSE log

\* the variant in which a worker ends with its first failed check
Complete_StopOnFailure(w, check, log) ==
    /\ checks' = [checks EXCEPT ![widx[w] + 1] = Some(check)]
    /\ whead' = [whead EXCEPT ![w] = None]
    /\ IF check.status \in {"network_error", "check_error"}
       THEN /\ wpc' = [wpc EXCEPT ![w] = "done"]
            /\ probes' = Written(log, widx[w] + 1, w)
            /\ UNCHANGED <<cursor, widx>>
       ELSE /\ cursor' = cursor + 1
            /\ widx' = [widx EXCEPT ![w] = cursor]
            /\ wpc' = [wpc EXCEPT ![w] = TakenPc(InputItems(deduped), Sources, cursor)]
            /\ probes' = Taken(Written(log, widx[w] + 1, w), cursor, w)

\* worker w resumes with the result of its check: it writes the slot, takes
\* the next index from the cursor and starts the next check or returns
Complete(w, check, log) ==
    /\ checks' = [checks EXCEPT ![widx[w] + 1] = Some(check)]
    /\ cursor' = cursor + 1
    /\ widx' = [widx EXCEPT ![w] = cursor]
    /\ wpc' = [wpc EXCEPT ![w] = TakenPc(InputItems(deduped), Sources, cursor)]
    /\ whead' = [whead EXCEPT ![w] = None]
    /\ probes' = Taken(Written(log, widx[w] + 1, w), cursor, w)

PoolRunning == pc \in {"verify", "pool"}

WorkerItem(w) == deduped[widx[w] + 1]
WorkerSource(w) == SourceFor(WorkerItem(w), Sources)

\* the check of worker w returned without a request (invalid_url, bad_host)
WorkerSettle(w) ==
    /\ PoolRunning /\ wpc[w] = "settle"
    /\ Complete(w, Val(checkWithoutProbe(WorkerItem(w), WorkerSource(w))), probes)
    /\ UNCHANGED <<run, pc, strict, dataFile, previousItems, deduped, liveCount, origin,
                   urlVerification, call, discovery, sender>>

\* the HEAD request of worker w completes or fails
WorkerHead(w) ==
    /\ PoolRunning /\ wpc[w] = "head"
    /\ \E head \in HeadResponses(canonicalizeUrl(WorkerItem(w).url)) :
          IF NeedsGet(head)
          THEN /\ whead' = [whead EXCEPT ![w] = Some(head)]
               /\ wpc' = [wpc EXCEPT ![w] = "get"]
               /\ probes' = Requested(probes, widx[w] + 1, "HEAD", head)
               /\ UNCHANGED <<checks, cursor, widx>>
          ELSE Complete(w, checkOpportunityUrl(WorkerItem(w), WorkerSource(w), head, head),
                        Requested(probes, widx[w] + 1, "HEAD", head))
    /\ UNCHANGED <<run, pc, strict, dataFile, previousItems, deduped, liveCount, origin,
                   urlVerification, call, discovery, sender>>

\* the GET request of worker w completes or fails
WorkerGet(w) ==
    /\ PoolRunning /\ wpc[w] = "get"
    /\ \E get \in GetResponses(canonicalizeUrl(WorkerItem(w).url)) :
          Complete(w, checkOpportunityUrl(WorkerItem(w), WorkerSource(w),
                                          Val(whead[w]), get),
                   Requested(probes, widx[w] + 1, "GET", get))
    /\ UNCHANGED <<run, pc, strict, dataFile, previousItems, deduped, liveCount, origin,
                   urlVerification, call, discovery, sender>>

PoolFinished == \A w \in Workers : wpc[w] \in {"done", "off"}

-----------------------------------------------------------------------------
(* Digest sender (scripts/send-digest.mjs) *)

\* process.env of a run of the sender; "" is a variable that is not set
SenderEnvs ==
    [BUTTONDOWN_API_KEY : {"", "bd-key"},
     BUTTONDOWN_DRY_RUN : {"", "true", "false"},
     SEND_EMPTY_DIGEST : {"", "true"}]

DigestStats(newItems, updatedItems) ==
    Some([subject |-> "UK Funding Daily Brief", markdown |-> "# UK Funding Daily Brief",
          stats |-> Some([newItems |-> newItems, updatedItems |-> updatedItems])])

\* what readJson(DATA_FILE, null) returns: None when the file is missing or is
\* not JSON, else the dataset with its digest (None: no digest, or no stats)
SenderPayloads ==
    {None,
     Some([digest |-> None]),
     Some([digest |-> Some([subject |-> "UK Funding Daily Brief",
                            markdown |-> "# UK Funding Daily Brief", stats |-> None])]),
     Some([digest |-> DigestStats(0, 0)]),
     Some([digest |-> DigestStats(1, 0)]),
     Some([digest |-> DigestStats(0, 2)])}

shouldSendDigest(payload, env) ==
    IF env.SEND_EMPTY_DIGEST = "true" THEN TRUE
    ELSE LET digest == Val(payload).digest
             stats == IF IsSome(digest) THEN Val(digest).stats ELSE None
         IN  IF ~IsSome(stats) THEN TRUE
             ELSE Val(stats).newItems + Val(stats).updatedItems > 0

\* a request of the sender to the provider; response is "pending" until the
\* fetch settles
SenderRequest(runNo, method, path, status) ==
    [run |-> runNo, method |-> method, path |-> path, status |-> status, response |-> "pending"]

\* how a fetch of the sender can settle: it rejects, the provider answers with
\* an error status, or it answers 2xx with a body that is no JSON, null, an
\* object without an id, or an object with one
ProviderResponses ==
    {[kind |-> "threw", json |-> None],
     [kind |-> "not_ok", json |-> None],
     [kind |-> "bad_json", json |-> None],
     [kind |-> "ok", json |-> None],
     [kind |-> "ok", json |-> Some([id |-> None])],
     [kind |-> "ok", json |-> Some([id |-> Some("em_1")])]}

SenderRuns == 2

\* the sender before its first run; outboxFile is docs/data/digest.outbox.json
SenderIdle ==
    [pc |-> "idle", runs |-> << >>, requests |-> << >>, outbox |-> None, draft |-> None,
     outboxFile |-> None, exitCode |-> None]

\* the run ends: main() returned (code 0) or threw (code 1)
SenderExit(s, code) == [s EXCEPT !.pc = "done", !.exitCode = Some(code)]

\* writeFile(OUTBOX_LOG_FILE, ...) with outbox.status set
WriteOutbox(s, outbox, status) ==
    [s EXCEPT !.outbox = Some([outbox EXCEPT !.status = Some(status)]),
              !.outboxFile = Some([outbox EXCEPT !.status = Some(status)])]

\* main() of a new run up to its first fetch, or to its end
SenderMain(s, env, payload) ==
    LET runNo == Len(s.runs) + 1
        started == [s EXCEPT !.runs = Append(s.runs, [env |-> env, payload |-> payload]),
                             !.outbox = None, !.draft = None, !.exitCode = None]
        digest == Val(payload).digest
        outbox == [generatedAt |-> runNo,
                   subject |-> IF IsSome(digest) THEN Val(digest).subject
                               ELSE "UK Funding Daily Brief " \o ToString(runNo),
                   shouldSend |-> shouldSendDigest(payload, env),
                   dryRun |-> env.BUTTONDOWN_DRY_RUN = "true",
                   provider |-> "buttondown", status |-> None, draftId |-> None]
    IN  IF ~IsSome(payload) THEN SenderExit(started, 1)
        ELSE IF ~shouldSendDigest(payload, env)
        THEN SenderExit(WriteOutbox(started, outbox, "skipped_no_changes"), 0)
        ELSE IF env.BUTTONDOWN_API_KEY = ""
        THEN SenderExit(WriteOutbox(started, outbox, "skipped_missing_api_key"), 0)
        ELSE [started EXCEPT !.pc = "draft", !.outbox = Some(outbox),
                             !.requests = Append(s.requests,
                                 SenderRequest(runNo, "POST", "/v1/emails", "draft"))]

\* the last request is settled
Settle(s, resp) ==
    [s EXCEPT !.requests[Len(s.requests)].response =
                  IF resp.kind \in {"ok", "bad_json"} THEN "ok" ELSE resp.kind]

\* createButtondownDraft settles where the send trigger is issued whatever
\* BUTTONDOWN_DRY_RUN says
DraftSettled_IgnoresDryRun(s, resp) ==
    LET runNo == Len(s.runs)
        t == Settle(s, resp)
    IN  IF resp.kind /= "ok" \/ ~IsSome(resp.json) THEN SenderExit(t, 1)
        ELSE [t EXCEPT !.pc = "send", !.draft = resp.json,
                       !.requests = Append(t.requests,
                           SenderRequest(runNo, "PATCH", "/v1/emails/em_1", "about_to_send"))]

\* createButtondownDraft settles and main() goes on to its next fetch or to its
\* end
DraftSettled(s, resp) ==
    LET runNo == Len(s.runs)
        env == s.runs[runNo].env
        t == Settle(s, resp)
        draft == resp.json
        id == IF IsSome(draft) THEN Val(draft).id ELSE None
        outbox == [Val(s.outbox) EXCEPT !.draftId = id, !.status = Some("draft_created")]
    IN  IF resp.kind /= "ok" THEN SenderExit(t, 1)
        ELSE IF env.BUTTONDOWN_DRY_RUN /= "true"
        THEN IF ~IsSome(draft) THEN SenderExit([t EXCEPT !.outbox = Some(outbox)], 1)
             ELSE [t EXCEPT !.pc = "send", !.draft = draft, !.outbox = Some(outbox),
                            !.requests = Append(t.requests,
                                SenderRequest(runNo, "PATCH",
                                              "/v1/emails/" \o (IF IsSome(id) THEN Val(id) ELSE "undefined"),
                                              "about_to_send"))]
        ELSE SenderExit(WriteOutbox([t EXCEPT !.draft = draft], outbox, "draft_created"), 0)

\* markAboutToSend settles and main() goes on to its end
SendSettled(s, resp) ==
    LET t == Settle(s, resp)
    IN  IF resp.kind /= "ok" THEN SenderExit(t, 1)
        ELSE SenderExit(WriteOutbox(t, Val(s.outbox), "queued_to_send"), 0)

SenderUnchanged ==
    UNCHANGED <<run, pc, strict, dataFile, previousItems, deduped, liveCount, origin,
                urlVerification, cursor, checks, wpc, widx, whead, call, discovery, probes>>

\* node scripts/send-digest.mjs is started
SenderStart ==
    /\ sender.pc \in {"idle", "done"}
    /\ Len(sender.runs) < SenderRuns
    /\ \E env \in SenderEnvs, payload \in SenderPayloads :
          sender' = SenderMain(sender, env, payload)
    /\ SenderUnchanged

\* the POST of the draft settles
DraftResponse ==
    /\ sender.pc = "draft"
    /\ \E resp \in ProviderResponses : sender' = DraftSettled(sender, resp)
    /\ SenderUnchanged

\* the PATCH of the send trigger settles
SendResponse ==
    /\ sender.pc = "send"
    /\ \E resp \in ProviderResponses : sender' = SendSettled(sender, resp)
    /\ SenderUnchanged

InitSender ==
    /\ run = 0 /\ pc = "sender" /\ strict = FALSE
    /\ dataFile = None
    /\ previousItems = << >> /\ deduped = << >> /\ liveCount = 0 /\ origin = "none"
    /\ urlVerification = None
    /\ cursor = 0 /\ checks = << >>
    /\ wpc = [w \in Workers |-> "off"]
    /\ widx = [w \in Workers |-> 0]
    /\ whead = [w \in Workers |-> None]
    /\ call = None
    /\ discovery = None
    /\ sender = SenderIdle
    /\ probes = NoProbes

NextSender ==
    \/ SenderStart
    \/ DraftResponse
    \/ SendResponse

SpecSender == InitSender /\ [][NextSender]_vars

-----------------------------------------------------------------------------
(* main() *)

Dataset(generatedAt, items) ==
    [generatedAt |-> generatedAt,
     stats |-> [total |-> Len(items),
                newToday |-> Cardinality({i \in 1..Len(items) : items[i].isNew = Some(TRUE)}),
                updatedToday |-> Cardinality({i \in 1..Len(items) : items[i].isUpdated = Some(TRUE)})],
     items |-> items]

\* previousData?.items of the file read at the start of the run
LoadPrevious(file) == IF IsSome(file) THEN Val(file).items ELSE << >>

RECURSIVE Concat(_, _)
Concat(lists, i) == IF i > Len(lists) THEN << >> ELSE lists[i] \o Concat(lists, i + 1)

\* `deduped` as main() hands it to verifyOpportunityUrls: the merged live
\* items, or the carried-forward or static items when there are none
WorkingSet(allItems, previous, sources, disableCarryForward, now) ==
    LET merged == mergeAndDedupe(allItems)
    IN  IF Len(merged) > 0 THEN merged
        ELSE IF Len(previous) > 0 /\ ~disableCarryForward
             THEN [i \in 1..Len(previous) |-> carryForward(previous[i], sources, now)]
             ELSE buildFallbackItems(sources, now)

\* every combination of what parseSource returns for the configured sources
AllYields(now) ==
    { y \in [1..Len(Sources) -> UNION {LiveYields(Sources[i], now) : i \in 1..Len(Sources)}] :
        \A i \in 1..Len(Sources) : y[i] \in LiveYields(Sources[i], now) }

\* main() from its start to the Promise.all of verifyOpportunityUrls.
\* DISABLE_CARRY_FORWARD is read only when there is something to carry forward.
StartRun ==
    /\ pc = "idle" /\ run < MaxRuns
    /\ run' = run + 1
    /\ \E yields \in AllYields(run + 1) :
       \E disableCarryForward \in
             (IF Len(mergeAndDedupe(Concat(yields, 1))) = 0 /\ Len(LoadPrevious(dataFile)) > 0
              THEN BOOLEAN ELSE {FALSE}) :
          /\ previousItems' = LoadPrevious(dataFile)
          /\ liveCount' = Len(mergeAndDedupe(Concat(yields, 1)))
          /\ origin' = IF Len(mergeAndDedupe(Concat(yields, 1))) > 0 THEN "live"
                       ELSE IF Len(LoadPrevious(dataFile)) > 0 /\ ~disableCarryForward
                            THEN "carried_forward" ELSE "fallback"
          /\ deduped' = WorkingSet(Concat(yields, 1), LoadPrevious(dataFile), Sources,
                                   disableCarryForward, run + 1)
          /\ PoolStart(deduped', Sources)
    /\ pc' = "verify"
    /\ urlVerification' = None
    /\ UNCHANGED <<strict, dataFile, call, discovery, sender>>

finalItems_NewWhenChanged(items, previous) ==
    [i \in 1..Len(items) |->
        LET prev == PrevGet(previous, items[i].id)
            changed == IsSome(prev) /\ Val(prev).fingerprint /= items[i].fingerprint
        IN  [items[i] EXCEPT !.isNew = Some(~IsSome(prev) \/ changed),
                             !.isUpdated = Some(changed)]]

\* the diff flags of main(): isNew and isUpdated of every sorted item
finalItems(items, previous) ==
    [i \in 1..Len(items) |->
        LET prev == PrevGet(previous, items[i].id)
        IN  [items[i] EXCEPT !.isNew = Some(~IsSome(prev)),
                             !.isUpdated = Some(IsSome(prev)
                                                /\ Val(prev).fingerprint /= items[i].fingerprint)]]

\* main() after verifyOpportunityUrls returned `verified`, up to the list
\* that is written
Touched(verified, previous, now) ==
    LET merged == mergeAndDedupe(verified.items)
        capped == SubSeq(merged, 1, Min(MAX_TOTAL_ITEMS, Len(merged)))
        printed == [i \in 1..Len(capped) |->
                      [capped[i] EXCEPT !.fingerprint = Some(buildFingerprint(capped[i]))]]
        \* the pipeline runs are explored without OPENROUTER_API_KEY
        enriched == enrichWithSummaries(printed, previous, FALSE, << >>, << >>)
    IN  [i \in 1..Len(enriched) |-> [enriched[i] EXCEPT !.lastSeenAt = Some(now)]]

Consolidate(verified, previous, now) == finalItems(sortItems(Touched(verified, previous, now)), previous)

\* main() from the end of the worker pool to its end: the pass of the verifier
\* over the checks, the re-merge, the strict-mode guards and the write of the
\* dataset.  STRICT_URL_VALIDATION is fixed when the process starts; nothing
\* reads it before this point, so its value is drawn here.
FinishRun ==
    /\ pc = "verify" /\ PoolFinished
    /\ \E strictMode \in BOOLEAN :
       LET verified == verifyFinish(InputItems(deduped), UncheckedTail(deduped), checks,
                                    strictMode)
       IN  /\ strict' = strictMode
           /\ urlVerification' = Some(verified)
           /\ IF verified.threw \/ (Len(mergeAndDedupe(verified.items)) = 0 /\ strictMode)
              THEN /\ pc' = "failed"
                   /\ UNCHANGED <<deduped, dataFile>>
              ELSE /\ pc' = "done"
                   /\ deduped' = Consolidate(verified, previousItems, run)
                   /\ dataFile' = Some(Dataset(run, deduped'))
    /\ UNCHANGED <<run, previousItems, liveCount, origin, cursor, checks, wpc, widx, whead,
                   call, discovery, sender, probes>>

\* the process exits (status 0 after "done", 1 after "failed")
Exit ==
    /\ pc \in {"done", "failed"}
    /\ pc' = "idle"
    /\ strict' = FALSE
    /\ previousItems' = << >>
    /\ deduped' = << >>
    /\ liveCount' = 0
    /\ origin' = "none"
    /\ urlVerification' = None
    /\ cursor' = 0 /\ checks' = << >>
    /\ wpc' = [w \in Workers |-> "off"]
    /\ widx' = [w \in Workers |-> 0]
    /\ whead' = [w \in Workers |-> None]
    /\ discovery' = None
    /\ probes' = NoProbes
    /\ UNCHANGED <<run, dataFile, call, sender>>

Init ==
    /\ run = 0 /\ pc = "idle" /\ strict = FALSE
    /\ dataFile = None
    /\ previousItems = << >> /\ deduped = << >> /\ liveCount = 0 /\ origin = "none"
    /\ urlVerification = None
    /\ cursor = 0 /\ checks = << >>
    /\ wpc = [w \in Workers |-> "off"]
    /\ widx = [w \in Workers |-> 0]
    /\ whead = [w \in Workers |-> None]
    /\ call = None
    /\ discovery = None
    /\ sender = SenderIdle
    /\ probes = NoProbes

Next ==
    \/ StartRun
    \/ \E w \in Workers : WorkerSettle(w)
    \/ \E w \in Workers : WorkerHead(w)
    \/ \E w \in Workers : WorkerGet(w)
    \/ FinishRun
    \/ Exit

Spec == Init /\ [][Next]_vars

-----------------------------------------------------------------------------
(* verifyOpportunityUrls called on its own *)

InvalidLink == BadUrl("/opportunity/relative")

DraftInvalid(now) ==
    LiveItem(SrcUkri, InvalidLink, "Relative Link Grant", "grant", "unknown", None, None,
             "A grant whose link could not be resolved.",
             Eligibility(<<"academic">>, <<"any">>, <<"any">>, <<"all disciplines">>),
             "detail", now)

\* the `items` arguments explored
VerifyInputs ==
    { <<DraftA(0)>>,
      <<DraftA(0), DraftB(0)>>,
      <<DraftB(0), DraftA(0), DraftEvil(0)>>,
      <<DraftEvil(0), DraftA(0)>>,
      <<DraftInvalid(0), DraftB(0)>> }

InitVerify ==
    /\ run = 0 /\ pc = "pool" /\ strict = FALSE
    /\ dataFile = None
    /\ previousItems = << >> /\ liveCount = 0 /\ origin = "none"
    /\ deduped \in VerifyInputs
    /\ urlVerification = None
    /\ checks = PoolStartState(deduped, Sources).checks
    /\ cursor = PoolStartState(deduped, Sources).cursor
    /\ widx = PoolStartState(deduped, Sources).widx
    /\ wpc = PoolStartState(deduped, Sources).wpc
    /\ whead = PoolStartState(deduped, Sources).whead
    /\ call = None
    /\ discovery = None
    /\ sender = SenderIdle
    /\ probes = PoolStartState(deduped, Sources).probes

\* verifyOpportunityUrls from the end of Promise.all to its return or throw
VerifyReturn ==
    /\ pc = "pool" /\ PoolFinished
    /\ \E strictMode \in BOOLEAN :
          /\ strict' = strictMode
          /\ urlVerification' = Some(verifyFinish(InputItems(deduped), UncheckedTail(deduped),
                                                  checks, strictMode))
    /\ pc' = "returned"
    /\ UNCHANGED <<run, dataFile, previousItems, deduped, liveCount, origin, cursor, checks,
                   wpc, widx, whead, call, discovery, sender, probes>>

NextVerify ==
    \/ \E w \in Workers : WorkerSettle(w)
    \/ \E w \in Workers : WorkerHead(w)
    \/ \E w \in Workers : WorkerGet(w)
    \/ VerifyReturn

SpecVerify == InitVerify /\ [][NextVerify]_vars

\* every request settles (fetchUrlMetadata aborts it after URL_CHECK_TIMEOUT_MS)
\* and the event loop resumes the workers and the caller of Promise.all: while
\* a step of the pool is possible, one is taken
FairVerify == WF_vars(NextVerify)

SpecVerifyLive == InitVerify /\ [][NextVerify]_vars /\ FairVerify

-----------------------------------------------------------------------------
(* Discovery: parseSource and the loop of main() over the sources *)

FUNDING_KEYWORDS ==
    << "grant", "funding", "fund", "fellowship", "studentship", "scholarship", "bursary",
       "award", "stipend", "call", "apply", "application", "research support", "phd",
       "postdoctoral" >>

NEGATIVE_KEYWORDS ==
    << "privacy", "cookie", "terms", "accessibility", "press release", "newsroom",
       "contact us", "vacancies", "job", "event", "webinar", "podcast", "annual report" >>

includesAny(text, keywords) ==
    LET lower == ToLowerCase(text)
    IN  \E i \in 1..Len(keywords) : Includes(lower, keywords[i])

shouldKeepOpportunity(candidate) ==
    LET merged == candidate.title \o " " \o candidate.description \o " " \o Href(candidate.url)
    IN  /\ includesAny(merged, FUNDING_KEYWORDS)
        /\ ~includesAny(merged, NEGATIVE_KEYWORDS)
        /\ Len(candidate.title) >= 8

scoreCandidate(link, source) ==
    LET text == ToLowerCase(link.text \o " " \o Href(link.url))
        host == getHost(link.url)
        allowedHosts == source.includeHosts
    IN  (IF includesAny(text, FUNDING_KEYWORDS) THEN 4 ELSE 0)
        + (IF Includes(text, "deadline") \/ Includes(text, "closing") THEN 3 ELSE 0)
        + (IF Includes(text, "open") THEN 2 ELSE 0)
        + (IF Includes(text, "apply") THEN 2 ELSE 0)
        - (IF includesAny(text, NEGATIVE_KEYWORDS) THEN 5 ELSE 0)
        + (IF Len(allowedHosts) = 0 THEN 0
           ELSE IF \E i \in 1..Len(allowedHosts) : EndsWith(host, allowedHosts[i]) THEN 1
           ELSE 0 - 2)

\* the Map of pickCandidateLinks: one link per url, at the position of the
\* url's first link, with the longest anchor text (the first of the longest)
DedupLinks(links) ==
    LET http == SelectIdx(links, {i \in 1..Len(links) : StartsWith(Href(links[i].url), "http")}, 1)
        firsts == {i \in 1..Len(http) : \A j \in 1..(i - 1) : http[j].url /= http[i].url}
        Best(i) == CHOOSE j \in 1..Len(http) :
                      /\ http[j].url = http[i].url
                      /\ \A m \in 1..Len(http) : http[m].url = http[i].url =>
                            \/ Len(http[m].text) < Len(http[j].text)
                            \/ (Len(http[m].text) = Len(http[j].text) /\ j <= m)
    IN  SelectIdx([i \in 1..Len(http) |-> http[Best(i)]], firsts, 1)

\* Array.prototype.sort((a, b) => b.score - a.score): stable
RECURSIVE SortByScore(_, _)
SortByScore(list, source) ==
    IF Len(list) <= 1 THEN list
    ELSE LET rest == SortByScore(SubSeq(list, 1, Len(list) - 1), source)
             x == list[Len(list)]
             k == Cardinality({i \in 1..Len(rest) :
                                 scoreCandidate(rest[i], source) >= scoreCandidate(x, source)})
         IN  SubSeq(rest, 1, k) \o <<x>> \o SubSeq(rest, k + 1, Len(rest))

pickCandidateLinks(links, source, maxPerSource) ==
    LET dedup == DedupLinks(links)
        ranked == SortByScore(SelectIdx(dedup, {i \in 1..Len(dedup) :
                                                  scoreCandidate(dedup[i], source) >= 1}, 1),
                              source)
    IN  SubSeq(ranked, 1, Min(maxPerSource, Len(ranked)))

\* --max-per-source
MaxPerSource == 2

MAX_DETAIL_FETCH == 3

\* what a fetch does: it rejects, or answers with a status and a page
FetchThrew(message) == [threw |-> TRUE, status |-> 0, message |-> message, page |-> None]
Fetched(status, page) == [threw |-> FALSE, status |-> status, message |-> "", page |-> page]

\* fetchText: the page, or the message of the error it throws
fetchText(resp) ==
    IF resp.threw THEN [threw |-> TRUE, message |-> resp.message, page |-> None]
    ELSE IF ~RespOk(resp)
    THEN [threw |-> TRUE, message |-> "HTTP " \o ToString(resp.status), page |-> None]
    ELSE [threw |-> FALSE, message |-> "", page |-> resp.page]

\* a page as the extractors read it: a feed with its entries, or an HTML page
\* with its links, title, description and the fields read from its text
FeedPage(entries) == [rss |-> TRUE, entries |-> entries, links |-> << >>, fields |-> None]
HtmlPage(links, fields) == [rss |-> FALSE, entries |-> << >>, links |-> links, fields |-> Some(fields)]

\* the fields read from the page of an item
FieldsOf(item) ==
    [title |-> item.title, link |-> item.url, description |-> item.description,
     type |-> item.type, status |-> item.status, deadline |-> item.deadline,
     amount |-> item.amount, eligibility |-> item.eligibility]

\* the item parseRssItems and parseSource build from the fields of a page
BuildItem(source, url, title, fields, sourceType, now) ==
    LiveItem(source, url, title, fields.type, fields.status, fields.deadline, fields.amount,
             SliceTo(fields.description, 920), fields.eligibility, sourceType, now)

parseRssItems(page, source, now) ==
    LET e == page.entries
        built == [i \in 1..Len(e) |-> BuildItem(source, e[i].link, e[i].title, e[i], "rss", now)]
    IN  SelectIdx(built, {i \in 1..Len(e) :
                             /\ e[i].title /= "" /\ Href(e[i].link) /= ""
                             /\ shouldKeepOpportunity(built[i])}, 1)

\* the candidates parseSource adds for a fetched seed page that is no feed
SeedCandidates(page, source, seedUrl, maxPerSource) ==
    LET picks == pickCandidateLinks(page.links, source, maxPerSource)
    IN  [i \in 1..Len(picks) |->
            [seedUrl |-> seedUrl, url |-> picks[i].url, anchorText |-> picks[i].text,
             sourceType |-> "detail"]]
        \o << [seedUrl |-> seedUrl, url |-> canonicalizeUrl(seedUrl),
               anchorText |-> source.name, sourceType |-> "seed_page"] >>

\* config/sources.json: the seed URLs of the sources.  "standard" has two
\* listing pages for ukri and a feed for royal-society; "bulk" has a long list
\* of feeds on a host that does not resolve.
SeedA == Url("https:", "www.ukri.org", "/opportunity/", "")
SeedB == Url("https:", "www.ukri.org", "/funding-finder", "")
FeedR == Url("https:", "royalsociety.org", "/grants/feed", "")

\* length of the long list of seed URLs
BulkSeeds == 121

DeadSeed(i) == Url("https:", "feeds.invalid", "/feed/" \o ToString(i), "")

SeedUrls(config, source) ==
    IF config = "bulk"
    THEN (IF source.id = "ukri" THEN [i \in 1..BulkSeeds |-> DeadSeed(i)] ELSE << >>)
    ELSE (IF source.id = "ukri" THEN <<SeedA, SeedB>> ELSE <<FeedR>>)

Configs == {"standard", "bulk"}

ListingFields(title) ==
    [title |-> title, link |-> SeedA, description |-> "Browse current funding opportunities.",
     type |-> "grant", status |-> "unknown", deadline |-> None, amount |-> None,
     eligibility |-> Eligibility(<<"academic">>, <<"any">>, <<"any">>, <<"all disciplines">>)]

ListingA ==
    HtmlPage(<< [url |-> LinkA, text |-> "AI Fellowship"],
                [url |-> LinkB, text |-> "Biology Doctoral Grant"],
                [url |-> Url("https:", "www.ukri.org", "/privacy", ""), text |-> "Privacy and cookies"],
                [url |-> LinkA, text |-> "AI Research Fellowship: apply now"],
                [url |-> BadUrl("mailto:grants@ukri.org"), text |-> "Contact the grants team"],
                [url |-> LinkEvil, text |-> "Partner funding call: apply before the deadline"] >>,
             ListingFields("Funding opportunities"))

ListingB ==
    HtmlPage(<< [url |-> LinkB, text |-> "Biology Grant"] >>, ListingFields("Funding finder"))

\* what the network can do with a fetch of url in one run
FetchOutcomes(url, now) ==
    LET u == canonicalizeUrl(url)
    IN  IF u.hostname = "feeds.invalid" THEN { FetchThrew("fetch failed") }
        ELSE IF u = canonicalizeUrl(SeedA) THEN { FetchThrew("fetch failed"), Fetched(200, Some(ListingA)) }
        ELSE IF u = canonicalizeUrl(SeedB) THEN { Fetched(503, None), Fetched(200, Some(ListingB)) }
        ELSE IF u = canonicalizeUrl(FeedR)
        THEN { Fetched(404, None), Fetched(200, Some(FeedPage(<<FieldsOf(DraftRoyal(now))>>))) }
        ELSE IF u = LinkEvil
        THEN { Fetched(200, Some(HtmlPage(<< >>, FieldsOf(DraftEvil(now))))) }
        ELSE IF u = LinkA
        THEN { FetchThrew("This operation was aborted"),
               Fetched(200, Some(HtmlPage(<< >>, FieldsOf(DraftA(now))))) }
        ELSE { Fetched(404, None), Fetched(200, Some(HtmlPage(<< >>, FieldsOf(DraftB(now))))) }

\* the state of the discovery loop: the source being parsed (src), the loop of
\* parseSource it is in (stage) and the index of the next fetch in it (k), the
\* locals of parseSource (result holds the feed items first, as the split of
\* `candidates` by item.id puts them), allItems and allErrors of main(), and
\* the fetches made so far with their outcome
DiscoveryStart(config) ==
    [config |-> config, src |-> 1, stage |-> "seeds", k |-> 1,
     detail |-> << >>, result |-> << >>, errors |-> << >>, seen |-> {},
     allItems |-> << >>, allErrors |-> << >>, fetched |-> << >>]

\* the synchronous code up to the next fetch: the end of the seed loop, the
\* candidates skipped by seenDetail, the MAX_DETAIL_FETCH break, the return of
\* parseSource and the next source
RECURSIVE Advance(_)
Advance(d) ==
    IF d.src > Len(Sources) THEN d
    ELSE IF d.stage = "seeds"
    THEN (IF d.k <= Len(SeedUrls(d.config, Sources[d.src])) THEN d
          ELSE Advance([d EXCEPT !.stage = "details", !.k = 1]))
    ELSE IF Len(d.result) < MAX_DETAIL_FETCH /\ d.k <= Len(d.detail)
    THEN (IF d.detail[d.k].url \in d.seen THEN Advance([d EXCEPT !.k = @ + 1])
          ELSE d)
    ELSE Advance([d EXCEPT !.src = @ + 1, !.stage = "seeds", !.k = 1,
                           !.detail = << >>, !.result = << >>, !.errors = << >>, !.seen = {},
                           !.allItems = @ \o d.result, !.allErrors = @ \o d.errors])

\* SeedStep whose catch block records nothing
SeedStep_ErrorNotRecorded(d, resp, now) ==
    LET source == Sources[d.src]
        seedUrl == SeedUrls(d.config, source)[d.k]
        got == fetchText(resp)
        log == Append(d.fetched, [kind |-> "seed", src |-> d.src, url |-> seedUrl, ok |-> ~got.threw])
    IN  IF got.threw THEN [d EXCEPT !.k = @ + 1, !.fetched = log]
        ELSE IF Val(got.page).rss
        THEN [d EXCEPT !.k = @ + 1, !.fetched = log,
                       !.result = @ \o parseRssItems(Val(got.page), source, now)]
        ELSE [d EXCEPT !.k = @ + 1, !.fetched = log,
                       !.detail = @ \o SeedCandidates(Val(got.page), source, seedUrl, MaxPerSource)]

\* one iteration of the seed loop of parseSource, with the outcome of its fetch
SeedStep(d, resp, now) ==
    LET source == Sources[d.src]
        seedUrl == SeedUrls(d.config, source)[d.k]
        got == fetchText(resp)
        log == Append(d.fetched, [kind |-> "seed", src |-> d.src, url |-> seedUrl, ok |-> ~got.threw])
    IN  IF got.threw
        THEN [d EXCEPT !.k = @ + 1, !.fetched = log,
                       !.errors = Append(@, [seedUrl |-> seedUrl, detailUrl |-> None,
                                             error |-> got.message])]
        ELSE IF Val(got.page).rss
        THEN [d EXCEPT !.k = @ + 1, !.fetched = log,
                       !.result = @ \o parseRssItems(Val(got.page), source, now)]
        ELSE [d EXCEPT !.k = @ + 1, !.fetched = log,
                       !.detail = @ \o SeedCandidates(Val(got.page), source, seedUrl, MaxPerSource)]

\* one iteration of the detail loop of parseSource, with the outcome of its fetch
DetailStep(d, resp, now) ==
    LET source == Sources[d.src]
        candidate == d.detail[d.k]
        got == fetchText(resp)
        log == Append(d.fetched, [kind |-> "detail", src |-> d.src, url |-> candidate.url, ok |-> ~got.threw])
        fields == Val(Val(got.page).fields)
        title == IF fields.title /= "" THEN fields.title ELSE candidate.anchorText
        item == BuildItem(source, candidate.url, title, fields, candidate.sourceType, now)
    IN  IF got.threw
        THEN [d EXCEPT !.k = @ + 1, !.fetched = log, !.seen = @ \cup {candidate.url},
                       !.errors = Append(@, [seedUrl |-> candidate.seedUrl,
                                             detailUrl |-> Some(candidate.url),
                                             error |-> got.message])]
        ELSE [d EXCEPT !.k = @ + 1, !.fetched = log, !.seen = @ \cup {candidate.url},
                       !.result = IF shouldKeepOpportunity(item) THEN Append(@, item) ELSE @]

\* diagnostics.errors of the output: allErrors.slice(0, 120)
DiagnosticsCap == 120
diagnosticsErrors(allErrors) == SubSeq(allErrors, 1, Min(DiagnosticsCap, Len(allErrors)))

\* number of pipeline runs with discovery explored
DiscoverRuns == 1

\* main() goes on after a step of discovery: to the next fetch, or past the
\* last source to the first merge, the empty-discovery fallback and the start
\* of verifyOpportunityUrls
Discovered(d, now) ==
    /\ discovery' = Some(d)
    /\ IF d.src <= Len(Sources)
       THEN /\ pc' = "discover"
            /\ UNCHANGED <<previousItems, deduped, liveCount, origin, cursor, checks, wpc,
                           widx, whead, probes>>
       ELSE /\ pc' = "verify"
            /\ previousItems' = LoadPrevious(dataFile)
            /\ liveCount' = Len(mergeAndDedupe(d.allItems))
            /\ origin' = IF Len(mergeAndDedupe(d.allItems)) > 0 THEN "live"
                         ELSE IF Len(LoadPrevious(dataFile)) > 0 THEN "carried_forward"
                         ELSE "fallback"
            /\ deduped' = WorkingSet(d.allItems, LoadPrevious(dataFile), Sources, FALSE, now)
            /\ PoolStart(deduped', Sources)

\* main() from its start to the first fetch of discovery
BeginDiscovery ==
    /\ pc = "idle" /\ run < DiscoverRuns
    /\ run' = run + 1
    /\ \E config \in Configs : Discovered(Advance(DiscoveryStart(config)), run + 1)
    /\ urlVerification' = None
    /\ UNCHANGED <<strict, dataFile, call, sender>>

\* the fetch of a seed URL settles
FetchSeed ==
    /\ pc = "discover" /\ Val(discovery).stage = "seeds"
    /\ LET d == Val(discovery)
       IN  \E resp \in FetchOutcomes(SeedUrls(d.config, Sources[d.src])[d.k], run) :
              Discovered(Advance(SeedStep(d, resp, run)), run)
    /\ UNCHANGED <<run, strict, dataFile, urlVerification, call, sender>>

\* the fetch of a candidate page settles
FetchDetail ==
    /\ pc = "discover" /\ Val(discovery).stage = "details"
    /\ LET d == Val(discovery)
       IN  \E resp \in FetchOutcomes(d.detail[d.k].url, run) :
              Discovered(Advance(DetailStep(d, resp, run)), run)
    /\ UNCHANGED <<run, strict, dataFile, urlVerification, call, sender>>

NextDiscover ==
    \/ BeginDiscovery
    \/ FetchSeed
    \/ FetchDetail
    \/ \E w \in Workers : WorkerSettle(w)
    \/ \E w \in Workers : WorkerHead(w)
    \/ \E w \in Workers : WorkerGet(w)
    \/ FinishRun
    \/ Exit

SpecDiscover == Init /\ [][NextDiscover]_vars

-----------------------------------------------------------------------------
(* Dataset validation (scripts/validate-data.mjs) *)

\* typeof value === "string" && value.trim().length > 0
isNonEmptyString(value) == \E i \in 1..Len(value) : ~IsSpace(Ch(value, i))

isValidUrl(value) == isHttpUrl(value)

\* /^\d{4}-\d{2}-\d{2}$/.test(value)
isIsoDate(value) ==
    /\ Len(value) = 10
    /\ \A i \in 1..10 : IF i \in {5, 8} THEN Ch(value, i) = "-" ELSE IsDigit(Ch(value, i))

VERIFIED_URL_STATUSES == {"reachable", "reachable_with_redirect", "reachable_restricted"}

\* the patterns of NON_SPECIFIC_TITLE_PATTERNS written \b...\b, a trailing
\* "s?" spelled out.  /\bfunding\s*&\s*tenders\b/ is not listed: normalizeTitle
\* leaves no "&" for it to match.
GenericPhrases ==
    {"apply for and manage your funding", "apply for and manage funding",
     "apply for funding", "manage your award", "before you apply",
     "develop your application", "how we make decisions", "funding opportunities",
     "funding for research", "starting a funding journey",
     "planning a funding application", "responsibilities after funding",
     "eligibility guide for applicants", "application guidance",
     "guidance for applicants", "guidance for teachers", "information for advisors",
     "information for institutions and universities", "information session",
     "information sessions", "apply to imperial", "apply undergraduate",
     "application process", "accepted qualifications", "choose a course",
     "entry requirements", "do your own fundraising", "who can apply for"}

\* the patterns of NON_SPECIFIC_TITLE_PATTERNS written ^...$
GenericTitles ==
    {"scholarships and fellowships", "about us", "frequently asked questions", "faq",
     "faqs", "code of conduct", "policy and procedure", "template application form",
     "selection criteria", "host organisation", "host organisations", "partner",
     "partners", "evaluation", "filter search", "eligibility", "how to apply",
     "how we select", "criteria", "timeline", "resource", "resources",
     "find a scholarship", "our funding schemes", "scholarship timeline",
     "guide for applicants", "funded grants", "funding guidance",
     "funding policies and grant conditions", "funding portfolio", "prepare to apply",
     "scholarships"}

NON_SPECIFIC_URL_SEGMENTS ==
    {"/apply-for-and-manage-your-funding", "/apply-for-funding", "/manage-your-award",
     "/before-you-apply", "/develop-your-application", "/how-we-make-decisions",
     "/starting-a-funding-journey", "/application-support",
     "/responsibilities-after-funding", "/resource-hub/guidance",
     "/information-for-advisors", "/information-for-institutions-and-universities",
     "/information-sessions", "/study/apply", "/do-your-own-fundraising",
     "/apply/eligibility", "/how-to-apply", "/how-we-select", "/find-a-scholarship",
     "/our-funding-schemes", "/apply/criteria", "/apply/timeline",
     "/information-for-applicants/timeline", "/scholarships/who-can-apply",
     "/fellowships/who-can-apply", "/who-can-apply-for-a-chevening",
     "/funding-tenders/opportunities/data/topic-list.html",
     "/funding-for-research/resources", "/research-funding/guidance",
     "/research-funding/funding-portfolio", "/guidance/prepare-to-apply"}

\* .replace(/[^\w\s]/g, " ")
RECURSIVE PunctuationToSpaces(_, _, _)
PunctuationToSpaces(s, a, b) ==
    IF a > b THEN ""
    ELSE IF a = b
    THEN IF IsWordChar(Ch(s, a)) \/ IsSpace(Ch(s, a)) THEN Ch(s, a) ELSE " "
    ELSE LET h == (a + b) \div 2
         IN  PunctuationToSpaces(s, a, h) \o PunctuationToSpaces(s, h + 1, b)

normalizeTitle(value) ==
    LET lower == ToLowerCase(value)
        plain == PunctuationToSpaces(lower, 1, Len(lower))
    IN  TrimSpaces(CollapseSpaces(plain, {}, 1, Len(plain)))

isNonSpecificTitle(title) ==
    \E normalized \in {normalizeTitle(title)} :
       /\ normalized /= ""
       /\ \/ normalized \in GenericTitles
          \/ \E p \in GenericPhrases : \E i \in 1..(Len(normalized) - Len(p) + 1) :
                /\ SubSeq(normalized, i, i + Len(p) - 1) = p
                /\ Boundary(normalized, i) /\ Boundary(normalized, i + Len(p))

hasNonSpecificUrlSegment(url) ==
    /\ url.ok
    /\ \E path \in {ToLowerCase(url.pathname)} :
          \E segment \in NON_SPECIFIC_URL_SEGMENTS : Includes(path, segment)

addError(message) == [level |-> "error", message |-> message]

addWarning(message) == [level |-> "warning", message |-> message]

When(cond, finding) == IF cond THEN <<finding>> ELSE << >>

\* the checks of one item's urlCheck
UrlCheckFindings(prefix, urlCheck, strictUrls) ==
    IF urlCheck = None
    THEN IF strictUrls
         THEN <<addError(prefix \o ".urlCheck is required in strict URL mode")>>
         ELSE <<addWarning(prefix \o ".urlCheck is missing")>>
    ELSE LET c == Val(urlCheck)
             status == c.status
             verified == status \in VERIFIED_URL_STATUSES
         IN  (IF status = ""
              THEN IF strictUrls
                   THEN <<addError(prefix \o ".urlCheck.status is required in strict URL mode")>>
                   ELSE <<addWarning(prefix \o ".urlCheck.status is missing")>>
              ELSE IF strictUrls /\ ~verified
              THEN <<addError(prefix \o ".urlCheck.status must be verified (got: " \o status \o ")")>>
              ELSE IF ~strictUrls /\ ~verified
              THEN <<addWarning(prefix \o ".urlCheck.status is not verified (" \o status \o ")")>>
              ELSE << >>)
             \o When(IsSome(c.finalUrl) /\ Href(Val(c.finalUrl)) /= "" /\ ~isValidUrl(Val(c.finalUrl)),
                     IF strictUrls
                     THEN addError(prefix \o ".urlCheck.finalUrl must be valid http/https")
                     ELSE addWarning(prefix \o ".urlCheck.finalUrl is not a valid URL"))
             \o When(c.allowedHost = FALSE,
                     IF strictUrls
                     THEN addError(prefix \o ".urlCheck.allowedHost is false")
                     ELSE addWarning(prefix \o ".urlCheck.allowedHost is false"))

\* the body of dataset.items.forEach for the item at index (from 0); ids and
\* urls are the two Sets as the earlier items left them
ItemFindings(item, index, strictUrls, ids, urls) ==
    LET prefix == "items[" \o ToString(index) \o "]"
        summaryText == IF IsSome(item.summary) THEN Val(item.summary).en ELSE ""
    IN  When(~isNonEmptyString(item.id), addError(prefix \o ".id is required"))
        \o When(~isNonEmptyString(item.title), addError(prefix \o ".title is required"))
        \o When(~isValidUrl(item.url), addError(prefix \o ".url must be a valid http/https URL"))
        \o When(~isNonEmptyString(item.sourceId), addError(prefix \o ".sourceId is required"))
        \o When(~isNonEmptyString(item.sourceName), addError(prefix \o ".sourceName is required"))
        \o When(isNonSpecificTitle(item.title),
                addError(prefix \o ".title is generic and not a specific grant (" \o item.title \o ")"))
        \o When(hasNonSpecificUrlSegment(item.url),
                addError(prefix \o ".url points to a generic apply/manage page (" \o Href(item.url) \o ")"))
        \o When(item.status \notin {"open", "closed", "unknown"},
                addError(prefix \o ".status must be one of open/closed/unknown"))
        \o When(item.type \notin {"grant", "fellowship", "scholarship", "call", "award"},
                addWarning(prefix \o ".type is non-standard (" \o item.type \o ")"))
        \o When(IsSome(item.deadline) /\ Val(item.deadline) /= "" /\ ~isIsoDate(Val(item.deadline)),
                addWarning(prefix \o ".deadline should be YYYY-MM-DD"))
        \o When(~isNonEmptyString(summaryText), addWarning(prefix \o ".summary is empty"))
        \o UrlCheckFindings(prefix, item.urlCheck, strictUrls)
        \o When(item.id /= "" /\ item.id \in ids,
                addError(prefix \o ".id is duplicated (" \o item.id \o ")"))
        \o When(Href(item.url) /= "" /\ Href(item.url) \in urls,
                addWarning(prefix \o ".url appears duplicated (" \o Href(item.url) \o ")"))

RECURSIVE ItemsFindings(_, _, _, _, _)
ItemsFindings(items, i, strictUrls, ids, urls) ==
    IF i > Len(items) THEN << >>
    ELSE ItemFindings(items[i], i - 1, strictUrls, ids, urls)
         \o ItemsFindings(items, i + 1, strictUrls,
                          IF items[i].id /= "" THEN ids \cup {items[i].id} ELSE ids,
                          IF Href(items[i].url) /= "" THEN urls \cup {Href(items[i].url)} ELSE urls)

OfLevel(findings, level) == SelectSeq(findings, LAMBDA f : f.level = level)

\* every finding of a dataset that is an object with an items array, in the
\* order the validator adds them.  generatedAt is the toISOString() text the
\* pipeline writes, which Date.parse accepts.
Findings(dataset, strictUrls) ==
    ItemsFindings(dataset.items, 1, strictUrls, {}, {})
    \o When(dataset.stats.total /= Len(dataset.items),
            addWarning("stats.total (" \o ToString(dataset.stats.total)
                       \o ") does not equal items.length ("
                       \o ToString(Len(dataset.items)) \o ")"))

validateDataset_DuplicateIdWarns(dataset, strictUrls) ==
    LET all == Findings(dataset, strictUrls)
        soft == [i \in 1..Len(all) |->
                    IF Includes(all[i].message, ".id is duplicated") THEN addWarning(all[i].message)
                    ELSE all[i]]
    IN  [errors |-> OfLevel(soft, "error"), warnings |-> OfLevel(soft, "warning")]

\* validateDataset(dataset, { strictUrls })
validateDataset(dataset, strictUrls) ==
    LET all == Findings(dataset, strictUrls)
    IN  [errors |-> OfLevel(all, "error"), warnings |-> OfLevel(all, "warning")]

-----------------------------------------------------------------------------
(* Matching and ranking in the page (docs/assets/matching.js) *)

\* String.prototype.trim(): the text without its leading and trailing whitespace
RECURSIVE TrimStart(_)
TrimStart(s) == IF s /= "" /\ IsSpace(Ch(s, 1)) THEN TrimStart(SubSeq(s, 2, Len(s))) ELSE s

RECURSIVE TrimEnd(_)
TrimEnd(s) == IF s /= "" /\ IsSpace(Ch(s, Len(s))) THEN TrimEnd(SubSeq(s, 1, Len(s) - 1)) ELSE s

\* String(text || "").toLowerCase().trim()
normalizeInput(text) == TrimEnd(TrimStart(ToLowerCase(text)))

\* a character of the separator class [\s,;/|]
IsSeparator(c) == IsSpace(c) \/ c \in {",", ";", "/", "|"}

\* the pieces of s from position i on that split(/[\s,;/|]+/) yields and
\* filter((x) => x.length > 1) keeps; cur is the piece being read
RECURSIVE SplitTokens(_, _, _)
SplitTokens(s, i, cur) ==
    LET done == IF Len(cur) > 1 THEN <<cur>> ELSE << >>
    IN  IF i > Len(s) THEN done
        ELSE IF IsSeparator(Ch(s, i)) THEN done \o SplitTokens(s, i + 1, "")
        ELSE SplitTokens(s, i + 1, cur \o Ch(s, i))

tokenize(text) == SplitTokens(normalizeInput(text), 1, "")

\* daysLeft(iso, nowMs): None is null
daysLeft(iso, nowMs) ==
    IF ~Truthy(iso) THEN None
    ELSE LET target == DateParseEndOfDay(Val(iso))
         IN  IF ~IsSome(target) THEN None
             ELSE Some(Val(target)[1] - nowMs[1] + (IF nowMs[2] < Val(target)[2] THEN 1 ELSE 0))

Max(a, b) == IF a >= b THEN a ELSE b

scoreItem(item, profile, nowMs) ==
    LET levels == item.eligibility.levels
        stages == item.eligibility.careerStages
        nationalities == item.eligibility.nationalities
        disciplines == item.eligibility.disciplines
        userTokens == tokenize(profile.discipline)
        targetTokens == tokenize(Join(disciplines, " "))
        intersects == SelectSeq(userTokens, LAMBDA token :
                          \E t \in 1..Len(targetTokens) :
                             Includes(targetTokens[t], token) \/ Includes(token, targetTokens[t]))
        broad == Contains(disciplines, "all disciplines")
        left == daysLeft(item.deadline, nowMs)
        level == IF profile.level = "" THEN [d |-> 0, r |-> << >>]
                 ELSE IF Len(levels) = 0 \/ Contains(levels, profile.level)
                 THEN [d |-> 22, r |-> <<"Level match: " \o profile.level>>]
                 ELSE [d |-> -24, r |-> <<"Possible level mismatch: target " \o Join(levels, "/")>>]
        stage == IF profile.careerStage = "" THEN [d |-> 0, r |-> << >>]
                 ELSE IF Len(stages) = 0 \/ Contains(stages, profile.careerStage)
                 THEN [d |-> 14, r |-> <<"Career stage match: " \o profile.careerStage>>]
                 ELSE [d |-> -12, r |-> <<"Career stage mismatch: target " \o Join(stages, "/")>>]
        nation == IF profile.nationality = "" THEN [d |-> 0, r |-> << >>]
                  ELSE IF \/ Contains(nationalities, "any") \/ Len(nationalities) = 0
                          \/ Contains(nationalities, profile.nationality)
                  THEN [d |-> 14, r |-> <<"Nationality/status compatible: " \o profile.nationality>>]
                  ELSE [d |-> -18, r |-> <<"Nationality restrictions: " \o Join(nationalities, "/")>>]
        field == IF profile.discipline = "" THEN [d |-> 0, r |-> << >>]
                 ELSE IF Len(intersects) > 0 \/ broad
                 THEN [d |-> Min(22, 9 + Len(intersects) * 5),
                       r |-> <<IF broad THEN "Broad discipline coverage"
                               ELSE "Discipline keyword match: "
                                    \o Join(SubSeq(intersects, 1, Min(3, Len(intersects))), "/")>>]
                 ELSE [d |-> -14,
                       r |-> <<"Discipline unclear/mismatch: "
                               \o (IF Join(SubSeq(disciplines, 1, Min(2, Len(disciplines))), "/") = ""
                                   THEN "TBC"
                                   ELSE Join(SubSeq(disciplines, 1, Min(2, Len(disciplines))), "/"))>>]
        status == IF item.status = "open" THEN 6 ELSE IF item.status = "closed" THEN -24 ELSE 0
        due == IF ~IsSome(left) THEN [d |-> 0, r |-> << >>]
               ELSE IF Val(left) < 0 THEN [d |-> -20, r |-> <<"Deadline has passed">>]
               ELSE IF Val(left) <= 7 THEN [d |-> 0, r |-> <<"Deadline is close: D-" \o ToString(Val(left))>>]
               ELSE [d |-> 0, r |-> << >>]
        score == 45 + level.d + stage.d + nation.d + field.d + status + due.d
        reasons == level.r \o stage.r \o nation.r \o field.r \o due.r
    IN  [score |-> Max(0, Min(100, score)),
         reasons |-> SubSeq(reasons, 1, Min(3, Len(reasons)))]

itemSummaryText(item) == IF IsSome(item.summary) THEN Val(item.summary).en ELSE ""

matchesFilters(item, filters) ==
    LET keyword == normalizeInput(filters.keyword)
        merged == ToLowerCase(Join(<<item.title, item.description, itemSummaryText(item)>>
                                   \o item.eligibility.disciplines, " "))
    IN  /\ filters.type /= "" => item.type = filters.type
        /\ filters.status /= "" => item.status = filters.status
        /\ filters.source /= "" => item.sourceId = filters.source
        /\ keyword /= "" => Includes(merged, keyword)

\* a value of dateValueForSort: a day, or an infinity (inf = 1 or -1)
dateValueForSort(item, fallback) ==
    LET value == IF Truthy(item.deadline) THEN DateParseDay(Val(item.deadline)) ELSE None
    IN  IF IsSome(value) THEN [inf |-> 0, day |-> Val(value)] ELSE [inf |-> fallback, day |-> 0]

Sign(n) == IF n < 0 THEN -1 ELSE IF n > 0 THEN 1 ELSE 0

\* a - b of two such values: Some(sign), or None for the NaN that the
\* difference of two equal infinities is
DateDifference(a, b) ==
    IF a.inf /= 0 /\ a.inf = b.inf THEN None
    ELSE IF a.inf /= b.inf THEN Some(Sign(a.inf - b.inf))
    ELSE Some(Sign(a.day - b.day))

\* the sign of compareBySort(a, b, sortBy), None when it is NaN
compareBySort(a, b, sortBy) ==
    CASE sortBy = "deadline_asc" -> DateDifference(dateValueForSort(a, 1), dateValueForSort(b, 1))
      [] sortBy = "deadline_desc" -> DateDifference(dateValueForSort(b, -1), dateValueForSort(a, -1))
      [] sortBy = "source_asc" -> Some(localeCompare(a.sourceName, b.sourceName))
      [] sortBy = "title_asc" -> Some(localeCompare(a.title, b.title))
      [] OTHER -> Some(Sign(b.matchScore - a.matchScore))

\* the comparator rankItems gives to sort, as Array.prototype.sort reads it: a
\* NaN result counts as 0
RankCompare(a, b, sortBy) ==
    LET bySort == compareBySort(a, b, IF sortBy = "" THEN "match_desc" ELSE sortBy)
    IN  IF bySort /= Some(0)
        THEN (IF IsSome(bySort) THEN Val(bySort) ELSE 0)
        ELSE localeCompare(a.title, b.title)

\* Array.prototype.sort with that comparator: stable
RECURSIVE SortRanked(_, _)
SortRanked(list, sortBy) ==
    IF Len(list) <= 1 THEN list
    ELSE LET rest == SortRanked(SubSeq(list, 1, Len(list) - 1), sortBy)
             x == list[Len(list)]
             k == Cardinality({i \in 1..Len(rest) : RankCompare(rest[i], x, sortBy) <= 0})
         IN  SubSeq(rest, 1, k) \o <<x>> \o SubSeq(rest, k + 1, Len(rest))

\* { ...item, matchScore, matchReasons, daysLeftValue }
Ranked(item, profile, nowMs) ==
    LET scored == scoreItem(item, profile, nowMs)
        left == daysLeft(item.deadline, nowMs)
    IN  [f \in DOMAIN item \cup {"matchScore", "matchReasons", "daysLeftValue"} |->
            IF f = "matchScore" THEN scored.score
            ELSE IF f = "matchReasons" THEN scored.reasons
            ELSE IF f = "daysLeftValue" THEN left
            ELSE item[f]]

rankItems(items, filters, profile, nowMs) ==
    LET matching == SelectSeq(items, LAMBDA item : matchesFilters(item, filters))
        scored == [i \in 1..Len(matching) |-> Ranked(matching[i], profile, nowMs)]
        kept == SelectSeq(scored, LAMBDA item :
                    /\ item.matchScore >= filters.minMatch
                    /\ filters.openOnly => item.status = "open"
                    /\ filters.closingSoonOnly =>
                          /\ IsSome(item.daysLeftValue)
                          /\ Val(item.daysLeftValue) >= 0 /\ Val(item.daysLeftValue) <= 14)
    IN  SortRanked(kept, filters.sortBy)

-----------------------------------------------------------------------------
(* State of the page in the URL and in local storage (docs/assets/app.js) *)

\* the initial value of `state`, filters and profile
DefaultState ==
    [filters |-> [keyword |-> "", type |-> "", status |-> "", source |-> "",
                  sortBy |-> "match_desc", minMatch |-> 0, openOnly |-> FALSE,
                  closingSoonOnly |-> FALSE],
     profile |-> [level |-> "", careerStage |-> "", nationality |-> "", discipline |-> ""]]

\* the application/x-www-form-urlencoded byte serialiser, on the characters
\* the model's texts use: a space becomes "+", letters, digits and * - . _
\* stay, the others are percent-encoded
PercentCodes ==
    [c \in {"+", "&", "=", "%", ";", "/", ",", "?", "#"} |->
        CASE c = "+" -> "%2B" [] c = "&" -> "%26" [] c = "=" -> "%3D" [] c = "%" -> "%25"
          [] c = ";" -> "%3B" [] c = "/" -> "%2F" [] c = "," -> "%2C" [] c = "?" -> "%3F"
          [] c = "#" -> "%23"]

RECURSIVE UrlEncode(_)
UrlEncode(s) ==
    IF s = "" THEN ""
    ELSE LET c == Ch(s, 1)
         IN  (IF c = " " THEN "+"
              ELSE IF c \in DOMAIN PercentCodes THEN PercentCodes[c]
              ELSE c) \o UrlEncode(SubSeq(s, 2, Len(s)))

\* the parser's decoding of a name or value: "+" is a space, %XX the character
RECURSIVE UrlDecode(_)
UrlDecode(s) ==
    IF s = "" THEN ""
    ELSE IF Ch(s, 1) = "+" THEN " " \o UrlDecode(SubSeq(s, 2, Len(s)))
    ELSE IF Ch(s, 1) = "%" /\ \E c \in DOMAIN PercentCodes : PercentCodes[c] = SubSeq(s, 1, 3)
    THEN (CHOOSE c \in DOMAIN PercentCodes : PercentCodes[c] = SubSeq(s, 1, 3))
         \o UrlDecode(SubSeq(s, 4, Len(s)))
    ELSE Ch(s, 1) \o UrlDecode(SubSeq(s, 2, Len(s)))

\* URLSearchParams.prototype.toString() of a list of <<name, value>> pairs
RECURSIVE ParamsToString(_)
ParamsToString(params) ==
    IF Len(params) = 0 THEN ""
    ELSE UrlEncode(params[1][1]) \o "=" \o UrlEncode(params[1][2])
         \o (IF Len(params) = 1 THEN "" ELSE "&" \o ParamsToString(Tail(params)))

\* new URLSearchParams(search): the "name=value" pieces between the "&" of the
\* text after the "?", in order, as decoded <<name, value>> pairs
URLSearchParams(search) ==
    LET query == IF Ch(search, 1) = "?" THEN SubSeq(search, 2, Len(search)) ELSE search
        starts == {1} \cup {i + 1 : i \in {j \in 1..Len(query) : Ch(query, j) = "&"}}
        EndOf(p) == IF \E i \in p..Len(query) : Ch(query, i) = "&"
                    THEN (CHOOSE i \in p..Len(query) :
                             Ch(query, i) = "&" /\ \A j \in p..(i - 1) : Ch(query, j) /= "&") - 1
                    ELSE Len(query)
        Pair(p) == LET piece == SubSeq(query, p, EndOf(p))
                       eq == IF \E i \in 1..Len(piece) : Ch(piece, i) = "="
                             THEN CHOOSE i \in 1..Len(piece) :
                                     Ch(piece, i) = "=" /\ \A j \in 1..(i - 1) : Ch(piece, j) /= "="
                             ELSE Len(piece) + 1
                   IN  <<UrlDecode(SubSeq(piece, 1, eq - 1)),
                         UrlDecode(SubSeq(piece, eq + 1, Len(piece)))>>
        kept == {p \in starts : EndOf(p) >= p}
        Nth(n) == CHOOSE p \in kept : Cardinality({q \in kept : q < p}) = n - 1
    IN  [n \in 1..Cardinality(kept) |-> Pair(Nth(n))]

\* params.get(name): the value of the first pair of that name, None for null
ParamsGet(params, name) ==
    IF \E i \in 1..Len(params) : params[i][1] = name
    THEN Some(params[CHOOSE i \in 1..Len(params) :
                        params[i][1] = name /\ \A j \in 1..(i - 1) : params[j][1] /= name][2])
    ELSE None

readBool(value) == value = Some("1") \/ value = Some("true")

\* Number(text) for the text of a "min" parameter: None is NaN
NumberOfText(text) ==
    IF text = "" THEN Some(0)
    ELSE IF AllDigits(text) THEN Some(ParseDigits(text, 0))
    ELSE None

\* mergeState(partial): partial is None when it is no object; its filters and
\* profile are None when absent, else objects that may lack fields.  The
\* minMatch of partial filters is Some(number), or None for NaN.
mergeState(state, partial) ==
    IF ~IsSome(partial) THEN state
    ELSE LET p == Val(partial)
             Spread(base, over) == [f \in DOMAIN base |-> IF f \in DOMAIN over THEN over[f] ELSE base[f]]
             Flag(over, f) == f \in DOMAIN over /\ over[f] = TRUE
             filters ==
                 IF ~IsSome(p.filters) THEN state.filters
                 ELSE LET over == Val(p.filters)
                          min == IF "minMatch" \in DOMAIN over THEN over.minMatch
                                 ELSE Some(state.filters.minMatch)
                      IN  [Spread(state.filters, over) EXCEPT
                              !.minMatch = IF IsSome(min) THEN Val(min) ELSE 0,
                              !.openOnly = Flag(over, "openOnly"),
                              !.closingSoonOnly = Flag(over, "closingSoonOnly")]
             profile ==
                 IF ~IsSome(p.profile) THEN state.profile
                 ELSE Spread(state.profile, Val(p.profile))
         IN  [filters |-> filters, profile |-> profile]

\* localStorage.getItem(STORAGE_KEY) as JSON.parse reads it: kind is "none"
\* (nothing stored), "invalid" (no JSON) or "json" with the parsed value
loadStateFromStorage(state, storage) ==
    IF storage.kind /= "json" THEN state ELSE mergeState(state, storage.value)

\* value || fallback for the value of a parameter
OrElse(value, fallback) == IF Truthy(value) THEN Val(value) ELSE fallback

\* search is window.location.search
loadStateFromUrl(state, search) ==
    LET params == URLSearchParams(search)
        min == ParamsGet(params, "min")
    IN  IF Len(params) = 0 THEN state
        ELSE mergeState(state,
            Some([filters |-> Some([keyword |-> OrElse(ParamsGet(params, "q"), state.filters.keyword),
                                    type |-> OrElse(ParamsGet(params, "type"), state.filters.type),
                                    status |-> OrElse(ParamsGet(params, "status"), state.filters.status),
                                    source |-> OrElse(ParamsGet(params, "source"), state.filters.source),
                                    sortBy |-> OrElse(ParamsGet(params, "sort"), state.filters.sortBy),
                                    minMatch |-> IF Truthy(min) THEN NumberOfText(Val(min))
                                                 ELSE Some(state.filters.minMatch),
                                    openOnly |-> readBool(ParamsGet(params, "open")),
                                    closingSoonOnly |-> readBool(ParamsGet(params, "closing"))]),
                  profile |-> Some([level |-> OrElse(ParamsGet(params, "level"), state.profile.level),
                                    careerStage |-> OrElse(ParamsGet(params, "career"), state.profile.careerStage),
                                    nationality |-> OrElse(ParamsGet(params, "nat"), state.profile.nationality),
                                    discipline |-> OrElse(ParamsGet(params, "disc"), state.profile.discipline)])]))

\* persistState(): what it stores under STORAGE_KEY and the search part of the
\* URL it gives to history.replaceState
persistState(state) ==
    LET f == state.filters
        p == state.profile
        Set(cond, name, value) == IF cond THEN << <<name, value>> >> ELSE << >>
        params == Set(f.keyword /= "", "q", f.keyword)
                  \o Set(f.type /= "", "type", f.type)
                  \o Set(f.status /= "", "status", f.status)
                  \o Set(f.source /= "", "source", f.source)
                  \o Set(f.sortBy /= "" /\ f.sortBy /= "match_desc", "sort", f.sortBy)
                  \o Set(f.minMatch > 0, "min", ToString(f.minMatch))
                  \o Set(f.openOnly, "open", "1")
                  \o Set(f.closingSoonOnly, "closing", "1")
                  \o Set(p.level /= "", "level", p.level)
                  \o Set(p.careerStage /= "", "career", p.careerStage)
                  \o Set(p.nationality /= "", "nat", p.nationality)
                  \o Set(p.discipline /= "", "disc", p.discipline)
    IN  [storage |-> [kind |-> "json",
                      value |-> Some([filters |-> Some([state.filters EXCEPT !.minMatch = Some(@)]),
                                      profile |-> Some(state.profile)])],
         search |-> IF ParamsToString(params) /= "" THEN "?" \o ParamsToString(params) ELSE ""]

\* init() up to its two loads, in a browser with that storage opened at a URL
\* with that search part
LoadState(search, storage) ==
    loadStateFromUrl(loadStateFromStorage(DefaultState, storage), search)

-----------------------------------------------------------------------------
(* Functions called on their own *)

\* descriptions of the lengths that matter to mergeAndDedupe and buildFingerprint
Text10 == "aaaaaaaaaa"
Text50 == Text10 \o Text10 \o Text10 \o Text10 \o Text10
Text80 == Text50 \o Text10 \o Text10 \o Text10
Text200 == Text50 \o Text50 \o Text50 \o Text50
Text320 == Text200 \o Text80 \o Text10 \o Text10 \o Text10 \o Text10

MergeLinks == { LinkA, [LinkA EXCEPT !.pathname = @ \o "/"], LinkB }

\* items as parseSource builds them, differing in link, description and deadline
MergeInputs ==
    { LiveItem(SrcUkri, link, "Grant " \o ToString(Len(text)) \o dl[1], "grant", "unknown",
               dl[2], None, text,
               Eligibility(<<"academic">>, <<"any">>, <<"any">>, <<"all disciplines">>),
               "detail", 0) :
        link \in MergeLinks, text \in {Text50, Text80, Text200},
        dl \in { <<" (rolling)", None>>, <<" (dated)", Some("2026-03-01")>> } }

CallMergeAndDedupe ==
    /\ pc = "pure" /\ call = None
    /\ \E a \in MergeInputs, b \in MergeInputs :
          /\ a /= b
          /\ call' = Some([fn |-> "mergeAndDedupe", args |-> <<a, b>>,
                           res |-> mergeAndDedupe(<<a, b>>)])
    /\ UNCHANGED <<run, pc, strict, dataFile, previousItems, deduped, liveCount, origin,
                   urlVerification, cursor, checks, wpc, widx, whead, discovery, sender, probes>>

CallCheckOpportunityUrl ==
    /\ pc = "pure" /\ call = None
    /\ \E item \in {DraftA(0), DraftRoyal(0)} :
       \E head \in ProbeResponses(item.url), get \in ProbeResponses(item.url) :
          call' = Some([fn |-> "checkOpportunityUrl",
                        args |-> <<item, SourceFor(item, Sources), head, get>>,
                        res |-> checkOpportunityUrl(item, SourceFor(item, Sources), head, get)])
    /\ UNCHANGED <<run, pc, strict, dataFile, previousItems, deduped, liveCount, origin,
                   urlVerification, cursor, checks, wpc, widx, whead, discovery, sender, probes>>

\* DraftB and items that differ from it in one field
FingerprintInputs ==
    LET base == [DraftB(0) EXCEPT !.description = Text320 \o "b"]
    IN  { base,
          [base EXCEPT !.title = "Biology Doctoral Grants"],
          [base EXCEPT !.url = LinkA],
          [base EXCEPT !.deadline = None],
          [base EXCEPT !.deadline = Some("2026-03-02")],
          [base EXCEPT !.amount = None],
          [base EXCEPT !.amount = Some("GBP 6,000")],
          [base EXCEPT !.status = "closed"],
          [base EXCEPT !.description = "b" \o Text320],
          [base EXCEPT !.description = Text320 \o "c"],
          [base EXCEPT !.description = Text50],
          [base EXCEPT !.id = sha1("other"), !.summary = Some(heuristicSummary(DraftB(0))),
                       !.sourceType = "rss", !.extractedAt = 1, !.type = "award"] }

CallBuildFingerprint ==
    /\ pc = "pure" /\ call = None
    /\ \E a \in FingerprintInputs, b \in FingerprintInputs :
          call' = Some([fn |-> "buildFingerprint", args |-> <<a, b>>,
                        res |-> <<buildFingerprint(a), buildFingerprint(b)>>])
    /\ UNCHANGED <<run, pc, strict, dataFile, previousItems, deduped, liveCount, origin,
                   urlVerification, cursor, checks, wpc, widx, whead, discovery, sender, probes>>

\* page texts, each with the one day/month/year span written in it (None: no date)
DeadlineTexts ==
    { [text |-> "31 February 2026", date |-> Some(<<2026, 2, 31>>)],
      [text |-> "2026-02-30", date |-> Some(<<2026, 2, 30>>)],
      [text |-> "2026-03-01", date |-> Some(<<2026, 3, 1>>)],
      [text |-> "deadline: 1 March 2026", date |-> Some(<<2026, 3, 1>>)],
      [text |-> "Closing date: 29 February 2028", date |-> Some(<<2028, 2, 29>>)],
      [text |-> "Closing date: 29 Feb 2027.", date |-> Some(<<2027, 2, 29>>)],
      [text |-> "Applications close 30/04/2026; apply online", date |-> Some(<<2026, 4, 30>>)],
      [text |-> "Applications close 31/04/2026", date |-> Some(<<2026, 4, 31>>)],
      [text |-> "Apply by March 5, 2026.", date |-> Some(<<2026, 3, 5>>)],
      [text |-> "Closes on 31.12.2026", date |-> Some(<<2026, 12, 31>>)],
      [text |-> "Deadline. The call opens on 9 Sept 2026", date |-> Some(<<2026, 9, 9>>)],
      [text |-> "Call closes\n2026/11/31", date |-> Some(<<2026, 11, 31>>)],
      [text |-> "Funding for doctoral students", date |-> None],
      [text |-> "Call closes soon", date |-> None],
      [text |-> "", date |-> None] }

CallExtractDeadline ==
    /\ pc = "pure" /\ call = None
    /\ \E t \in DeadlineTexts :
          LET res == extractDeadline(t.text)
          IN  call' = Some([fn |-> "extractDeadline", args |-> <<t>>,
                            res |-> res,
                            again |-> IF IsSome(res) THEN extractDeadline(Val(res)) ELSE None])
    /\ UNCHANGED <<run, pc, strict, dataFile, previousItems, deduped, liveCount, origin,
                   urlVerification, cursor, checks, wpc, widx, whead, discovery, sender, probes>>

StatusTexts ==
    { "Applications closed", "This call is CLOSED", "Now open", "Applications Open until spring",
      "Open call. Applications closed.", "Funding for doctoral students", "" }

StatusDeadlines == {None, Some("2026-01-01"), Some("2026-02-01"), Some("2026-12-01")}

\* Date.now() around the end of 2026-02-01: start of the day, its last second,
\* one millisecond later, and the start of the next day
StatusNows ==
    LET day == DaysFromCivil(2026, 2, 1)
    IN  { <<day, 0>>, <<day, MsPerDay - 1000>>, <<day, MsPerDay - 999>>, <<day + 1, 0>> }

CallInferStatus ==
    /\ pc = "pure" /\ call = None
    /\ \E text \in StatusTexts, deadlineIso \in StatusDeadlines, dateNow \in StatusNows :
          call' = Some([fn |-> "inferStatus", args |-> <<text, deadlineIso, dateNow>>,
                        res |-> inferStatus(text, deadlineIso, dateNow)])
    /\ UNCHANGED <<run, pc, strict, dataFile, previousItems, deduped, liveCount, origin,
                   urlVerification, cursor, checks, wpc, widx, whead, discovery, sender, probes>>

\* the i-th item of a long sorted list: odd items have a deadline in February
\* 2026, and every third item is not open
DigestItem(i, amount) ==
    LET draft == LiveItem(SrcUkri, Url("https:", "www.ukri.org", "/opportunity/" \o ToString(i), ""),
                          "Grant (" \o ToString(i) \o ") [round 2]", "grant",
                          IF i % 3 = 0 THEN "unknown" ELSE "open",
                          IF i % 2 = 1 THEN Some("2026-02-" \o Pad(i, 2)) ELSE None,
                          amount, "Funding round " \o ToString(i) \o ".",
                          Eligibility(<<"phd">>, <<"early">>, <<"any">>, <<"all disciplines">>),
                          "detail", 0)
    IN  [draft EXCEPT !.fingerprint = Some(buildFingerprint(draft)),
                      !.summary = Some(heuristicSummary(draft))]

DigestList(from, to, amount) == [i \in 1..(to - from + 1) |-> DigestItem(from + i - 1, amount)]

DigestCurrent == { DigestList(1, n, None) : n \in {0, 1, 3, 13, 14} }

DigestPrevious ==
    { << >>, DigestList(1, 2, None), DigestList(1, 1, Some("GBP 100")),
      DigestList(1, 14, None), DigestList(2, 14, Some("GBP 100")),
      DigestList(1, 1, None) \o DigestList(1, 2, Some("GBP 100")) }

CallCreateDigest ==
    /\ pc = "pure" /\ call = None
    /\ \E items \in DigestCurrent, previous \in DigestPrevious :
       \E dateNow \in {<<DaysFromCivil(2026, 2, 1), 0>>, <<DaysFromCivil(2026, 2, 5), MsPerDay - 1>>} :
          call' = Some([fn |-> "createDigest", args |-> <<items, previous>>,
                        res |-> createDigest(items, previous, "2026-02-01", dateNow),
                        stats |-> Dataset(0, finalItems(items, previous)).stats])
    /\ UNCHANGED <<run, pc, strict, dataFile, previousItems, deduped, liveCount, origin,
                   urlVerification, cursor, checks, wpc, widx, whead, discovery, sender, probes>>

\* OPENROUTER_MODELS: two candidate models
AiModels == << "openrouter/free", "qwen/qwen-2.5-72b-instruct:free" >>

AiEligibility == Eligibility(<<"PhD", "phd">>, <<"early">>, <<"UK">>, <<"physics">>)

\* what the request to a model can do
AiAnswers(model) ==
    { AiRejects,
      AiResponse(FALSE, None),
      AiResponse(TRUE, None),
      AiResponse(TRUE, AiContent(None)),
      AiResponse(TRUE, AiContent(AiObject(None, None))),
      AiResponse(TRUE, AiContent(AiObject(Some(JsString("  ")), None))),
      AiResponse(TRUE, AiContent(AiObject(Some(JsNumber(5)), None))),
      AiResponse(TRUE, AiContent(AiObject(Some(JsString(" Summary  by " \o model)), Some(AiEligibility)))) }

\* items as they reach enrichWithSummaries: fingerprinted, without a summary
EnrichItems == [i \in 1..4 |-> [DigestItem(i, None) EXCEPT !.summary = None]]

\* the previous dataset: empty, or the first item as an earlier run without
\* an API key published it
EnrichPrevious == { << >>, DigestList(1, 1, None) }

CallEnrichWithSummaries ==
    /\ pc = "pure" /\ call = None
    /\ \E previous \in EnrichPrevious, apiKey \in BOOLEAN :
       \E answers \in [{AiModels[i] : i \in 1..Len(AiModels)} -> UNION {AiAnswers(AiModels[i]) : i \in 1..Len(AiModels)}] :
          /\ \A i \in 1..Len(AiModels) : answers[AiModels[i]] \in AiAnswers(AiModels[i])
          /\ apiKey \/ \A i \in 1..Len(AiModels) : answers[AiModels[i]] = AiRejects
          /\ call' = Some([fn |-> "enrichWithSummaries",
                           args |-> <<EnrichItems, previous, apiKey, AiModels, answers>>,
                           res |-> enrichWithSummaries(EnrichItems, previous, apiKey, AiModels, answers)])
    /\ UNCHANGED <<run, pc, strict, dataFile, previousItems, deduped, liveCount, origin,
                   urlVerification, cursor, checks, wpc, widx, whead, discovery, sender, probes>>

\* items of a dataset file under validation: the ids are those of two published
\* items, a blank one and a missing one; the URL check is absent, verified or
\* failed
ValidatedIds == {DraftA(0).id, DraftB(0).id, " ", ""}

ValidatedChecks ==
    {None,
     Some(UrlCheck("reachable", LinkA, Some(LinkA), Some(200), TRUE, FALSE, None)),
     Some(UrlCheck("http_error", LinkA, Some(LinkA), Some(404), FALSE, FALSE, Some("HTTP 404")))}

ValidatedItem(id, urlCheck) ==
    LET base == IF id = DraftB(0).id THEN DraftB(0) ELSE DraftA(0)
    IN  [base EXCEPT !.id = id, !.urlCheck = urlCheck, !.summary = Some(Heuristic(base))]

ValidatedItems == {ValidatedItem(id, c) : id \in ValidatedIds, c \in ValidatedChecks}

MaxValidated == 3

CallValidateDataset ==
    /\ pc = "pure" /\ call = None
    /\ \E n \in 0..MaxValidated, strictUrls \in BOOLEAN :
       \E items \in [1..n -> ValidatedItems] :
          /\ call' = Some([fn |-> "validateDataset",
                           args |-> <<Dataset(0, items), strictUrls>>,
                           res |-> validateDataset(Dataset(0, items), strictUrls)])
    /\ UNCHANGED <<run, pc, strict, dataFile, previousItems, deduped, liveCount, origin,
                   urlVerification, cursor, checks, wpc, widx, whead, discovery, sender, probes>>

\* the items the page ranks: two without a deadline, two due on the same day
RankDated ==
    LiveItem(SrcRoyal, Url("https:", "royalsociety.org", "/grants/wolfson", ""),
             "Wolfson Visiting Fellowship", "fellowship", "closed", Some("2026-03-01"), None,
             "Visiting fellowships for data science.",
             Eligibility(<<"academic">>, <<"senior">>, <<"uk">>, <<"computer science and ai">>),
             "rss", 0)

RankPool == {DraftRoyal(0), DraftA(0), DraftB(0), RankDated}

MaxRanked == 3

NoFilters ==
    [keyword |-> "", type |-> "", status |-> "", source |-> "", sortBy |-> "",
     minMatch |-> 0, openOnly |-> FALSE, closingSoonOnly |-> FALSE]

RankFilters ==
    {NoFilters,
     [NoFilters EXCEPT !.keyword = " Data "],
     [NoFilters EXCEPT !.type = "fellowship"],
     [NoFilters EXCEPT !.status = "unknown"],
     [NoFilters EXCEPT !.source = "ukri"],
     [NoFilters EXCEPT !.minMatch = 50],
     [NoFilters EXCEPT !.openOnly = TRUE],
     [NoFilters EXCEPT !.closingSoonOnly = TRUE],
     [NoFilters EXCEPT !.keyword = "fellowship", !.source = "royal-society", !.minMatch = 30]}

SortKeys == {"", "match_desc", "deadline_asc", "deadline_desc", "source_asc", "title_asc"}

RankProfiles ==
    {[level |-> "", careerStage |-> "", nationality |-> "", discipline |-> ""],
     [level |-> "postdoc", careerStage |-> "early", nationality |-> "international",
      discipline |-> "AI; data"]}

\* 2026-02-19T12:00:00Z and 2026-03-05T00:00:00Z
RankNows == {<<DaysFromCivil(2026, 2, 19), 43200000>>, <<DaysFromCivil(2026, 3, 5), 0>>}

CallRankItems ==
    /\ pc = "pure" /\ call = None
    /\ \E n \in 0..MaxRanked, base \in RankFilters, sortBy \in SortKeys,
          profile \in RankProfiles, nowMs \in RankNows :
       \E items \in [1..n -> RankPool] :
          /\ \A i, j \in 1..n : i /= j => items[i] /= items[j]
          /\ LET filters == [base EXCEPT !.sortBy = sortBy]
             IN  call' = Some([fn |-> "rankItems",
                               args |-> <<items, filters, profile, nowMs>>,
                               res |-> rankItems(items, filters, profile, nowMs)])
    /\ UNCHANGED <<run, pc, strict, dataFile, previousItems, deduped, liveCount, origin,
                   urlVerification, cursor, checks, wpc, widx, whead, discovery, sender, probes>>

\* states of the page to share: what its inputs can set
SharedKeywords == {"", "ai", "r&d 50%+ data/science"}

SharedSelections ==
    {[type |-> "", status |-> "", source |-> ""],
     [type |-> "", status |-> "open", source |-> ""],
     [type |-> "grant", status |-> "closed", source |-> "ukri"]}

SharedProfiles ==
    {DefaultState.profile,
     [DefaultState.profile EXCEPT !.level = "phd"],
     [level |-> "postdoc", careerStage |-> "early", nationality |-> "international",
      discipline |-> "AI; data"]}

SharedStates ==
    {[filters |-> [keyword |-> k, type |-> s.type, status |-> s.status, source |-> s.source,
                   sortBy |-> sortBy, minMatch |-> min, openOnly |-> o, closingSoonOnly |-> c],
      profile |-> p] :
        k \in SharedKeywords, s \in SharedSelections, sortBy \in {"match_desc", "deadline_asc"},
        min \in {0, 60}, o \in BOOLEAN, c \in BOOLEAN, p \in SharedProfiles}

\* what the recipient's browser has stored: nothing, text that is no JSON, the
\* state an earlier visit persisted, or an object with filters only
RecipientStorages ==
    {[kind |-> "none", value |-> None],
     [kind |-> "invalid", value |-> None],
     persistState([filters |-> [keyword |-> "postdoc", type |-> "fellowship", status |-> "open",
                                source |-> "royal-society", sortBy |-> "title_asc",
                                minMatch |-> 80, openOnly |-> TRUE, closingSoonOnly |-> TRUE],
                   profile |-> [level |-> "masters", careerStage |-> "mid",
                                nationality |-> "uk", discipline |-> "biology"]]).storage,
     [kind |-> "json", value |-> Some([filters |-> Some([keyword |-> "old"]), profile |-> None])]}

CallPersistAndLoad ==
    /\ pc = "pure" /\ call = None
    /\ \E state \in SharedStates, storage \in RecipientStorages :
          call' = Some([fn |-> "persistState",
                        args |-> <<state, storage>>,
                        res |-> [search |-> persistState(state).search,
                                 loaded |-> LoadState(persistState(state).search, storage)]])
    /\ UNCHANGED <<run, pc, strict, dataFile, previousItems, deduped, liveCount, origin,
                   urlVerification, cursor, checks, wpc, widx, whead, discovery, sender, probes>>

\* the previous dataset of a call of enrichWithSummaries after an earlier run:
\* no record of the first item, a record with the same fingerprint and a
\* stored summary, one with another fingerprint, one without a summary, and
\* stored records of the first and the third item
StoredSummary(i) ==
    Some([heuristicSummary(DigestItem(i, None)) EXCEPT
            !.en = "Stored summary " \o ToString(i), !.model = "stored/model"])

StoredItem(i) == [DigestItem(i, None) EXCEPT !.summary = StoredSummary(i)]

ReusePrevious ==
    { << >>,
      <<StoredItem(1)>>,
      <<[StoredItem(1) EXCEPT !.fingerprint = Some(sha1("an earlier text"))]>>,
      <<[StoredItem(1) EXCEPT !.summary = None]>>,
      <<StoredItem(1), StoredItem(3)>>,
      <<StoredItem(2), StoredItem(5)>> }

\* enrichWithSummaries(items, previousMap) of a run that has a previous
\* dataset; `asked` is the queue handed to summarizeWithAI
CallEnrichWithPrevious ==
    /\ pc = "pure" /\ call = None
    /\ \E previous \in ReusePrevious, apiKey \in BOOLEAN :
       \E answers \in [{AiModels[i] : i \in 1..Len(AiModels)} -> UNION {AiAnswers(AiModels[i]) : i \in 1..Len(AiModels)}] :
          /\ \A i \in 1..Len(AiModels) : answers[AiModels[i]] \in AiAnswers(AiModels[i])
          /\ apiKey \/ \A i \in 1..Len(AiModels) : answers[AiModels[i]] = AiRejects
          /\ call' = Some([fn |-> "enrichWithSummaries",
                           args |-> <<EnrichItems, previous, apiKey, AiModels, answers>>,
                           asked |-> trimmedQueue(EnrichItems, previous),
                           res |-> enrichWithSummaries(EnrichItems, previous, apiKey, AiModels, answers)])
    /\ UNCHANGED <<run, pc, strict, dataFile, previousItems, deduped, liveCount, origin,
                   urlVerification, cursor, checks, wpc, widx, whead, discovery, sender, probes>>

\* items of a dataset around 2026-02-19: open or closed, without a deadline
\* or with one the day before, the same day, 13, 14 and 15 days later
SoonDeadlines ==
    {None, Some("2026-02-18"), Some("2026-02-19"), Some("2026-03-04"), Some("2026-03-05"),
     Some("2026-03-06")}

SoonItem(i, status, deadline) == [DigestItem(i, None) EXCEPT !.status = status, !.deadline = deadline]

SoonLists ==
    { << >> }
    \cup { <<SoonItem(1, st, d)>> : st \in {"open", "closed"}, d \in SoonDeadlines }
    \cup { <<SoonItem(1, "open", d1), SoonItem(2, "open", d2)>> : d1, d2 \in SoonDeadlines }

\* Date.now(): 2026-02-19 at 00:00:00.000, 12:00:00.000 and 23:59:59.500
SoonNows == { <<DaysFromCivil(2026, 2, 19), ms>> : ms \in {0, 43200000, 86399500} }

\* createDigest(items, previousMap) at a given time; `closing` is its
\* closingSoon list
CallCreateDigestAt ==
    /\ pc = "pure" /\ call = None
    /\ \E items \in SoonLists, dateNow \in SoonNows :
          call' = Some([fn |-> "createDigestAt", args |-> <<items, << >> >>,
                        now |-> dateNow,
                        closing |-> closingSoon(items, dateNow),
                        res |-> createDigest(items, << >>, "2026-02-19", dateNow)])
    /\ UNCHANGED <<run, pc, strict, dataFile, previousItems, deduped, liveCount, origin,
                   urlVerification, cursor, checks, wpc, widx, whead, discovery, sender, probes>>

\* ---- main() over objects: which object each assignment of a run writes ----
\* Every assignment of a run has the form item.field = value (part_003:516,
\* 523, 1429-1460, 1574, 1580); an item is modelled with its identity `obj`,
\* the position of the object in the store of the process.

Tagged(item, o) ==
    [id |-> item.id, title |-> item.title, url |-> item.url, sourceId |-> item.sourceId,
     sourceName |-> item.sourceName, sourceHomepage |-> item.sourceHomepage,
     type |-> item.type, status |-> item.status, deadline |-> item.deadline,
     amount |-> item.amount, description |-> item.description,
     eligibility |-> item.eligibility, summary |-> item.summary,
     sourceType |-> item.sourceType, extractedAt |-> item.extractedAt,
     urlCheck |-> item.urlCheck, fingerprint |-> item.fingerprint,
     lastSeenAt |-> item.lastSeenAt, isNew |-> item.isNew, isUpdated |-> item.isUpdated,
     obj |-> o]

\* the item as JSON.stringify writes it
Untagged(item) ==
    [id |-> item.id, title |-> item.title, url |-> item.url, sourceId |-> item.sourceId,
     sourceName |-> item.sourceName, sourceHomepage |-> item.sourceHomepage,
     type |-> item.type, status |-> item.status, deadline |-> item.deadline,
     amount |-> item.amount, description |-> item.description,
     eligibility |-> item.eligibility, summary |-> item.summary,
     sourceType |-> item.sourceType, extractedAt |-> item.extractedAt,
     urlCheck |-> item.urlCheck, fingerprint |-> item.fingerprint,
     lastSeenAt |-> item.lastSeenAt, isNew |-> item.isNew, isUpdated |-> item.isUpdated]

\* the one value of a set of one value
Only(S) == CHOOSE x \in S : TRUE

\* a list with every element computed
Computed(list) == << >> \o list

\* previousData.items as parsed from the file; previousMap holds the same objects
LoadedObjects(previous) == Computed([i \in 1..Len(previous) |-> Tagged(previous[i], i)])

\* the objects an object literal or a spread copy makes for `values`: new ones
NewObjects(store, values) ==
    Computed([i \in 1..Len(values) |-> Tagged(values[i], Len(store) + i)])

RECURSIVE LastObject(_, _)
LastObject(values, i) == IF i > Len(values) THEN 0 ELSE Max(values[i].obj, LastObject(values, i + 1))

\* the store once the objects `values` are created, or assigned to in place
Placed(store, values) ==
    Computed([o \in 1..Max(Len(store), LastObject(values, 1)) |->
                IF \E i \in 1..Len(values) : values[i].obj = o
                THEN values[CHOOSE i \in 1..Len(values) : values[i].obj = o]
                ELSE store[o]])

\* the carried-forward items written onto the previous items themselves
CarriedForward_InPlace(loaded, sources, now) ==
    [i \in 1..Len(loaded) |-> carryForward(loaded[i], sources, now)]

\* previousItems.map((item) => ({ ...item, url, sourceHomepage, rawSignals }))
CarriedForward(loaded, sources, now) ==
    NewObjects(loaded, [i \in 1..Len(loaded) |-> carryForward(loaded[i], sources, now)])

\* `deduped` as main() hands it to verifyOpportunityUrls, as objects
WorkingObjects(loaded, merged, disableCarryForward, now) ==
    IF Len(merged) > 0 THEN merged
    ELSE IF Len(loaded) > 0 /\ ~disableCarryForward
         THEN CarriedForward(loaded, Sources, now)
         ELSE NewObjects(loaded, buildFallbackItems(Sources, now))

\* what the network answers to the HEAD and to the GET of a URL
AnswerKinds == {"ok", "moved", "missing", "get", "down"}

HeadAnswer(kind, url) ==
    CASE kind = "ok" -> Resp(200, url)
      [] kind = "moved" -> Resp(200, LinkB)
      [] kind = "missing" -> Resp(404, url)
      [] kind = "get" -> Resp(405, url)
      [] OTHER -> NetworkFailure

\* the slots of `checks` when the pool is finished
PoolChecks(inputItems, answers) ==
    Computed([i \in 1..Len(inputItems) |->
                Some(checkOpportunityUrl(inputItems[i], SourceFor(inputItems[i], Sources),
                                         HeadAnswer(answers[i], inputItems[i].url),
                                         Resp(200, inputItems[i].url)))])

\* the list verifyOpportunityUrls returns, as objects: keepItems holds the
\* input objects, `preserved` and the tail are copies
ReturnedObjects(checked, verified, tailLen) ==
    LET same == IF verified.summary.networkUnavailable THEN 0
                ELSE Len(verified.items) - tailLen
    IN  SubSeq(verified.items, 1, same)
        \o NewObjects(checked, SubSeq(verified.items, same + 1, Len(verified.items)))

\* main() after verifyOpportunityUrls: the store at the end of the run and
\* the list that is written
MainAfterVerify(loaded, branch, slots, checked, verified, returned, strictMode, now) ==
    IF verified.threw \/ (Len(returned) = 0 /\ strictMode)
    THEN [origin |-> branch, slots |-> slots, failed |-> TRUE, loaded |-> loaded,
          store |-> checked, written |-> << >>]
    ELSE Only({ [origin |-> branch, slots |-> slots, failed |-> FALSE, loaded |-> loaded,
                 store |-> Placed(Placed(checked, returned), touched),
                 written |-> Computed(finalItems(sortItems(touched), loaded))] :
                touched \in {Computed(Touched([verified EXCEPT !.items = returned],
                                              loaded, now))} })

\* verifyOpportunityUrls on the working objects, then the rest of main()
MainFromWorking(loaded, created, working, branch, slots, strictMode, now) ==
    Only({ Only({ MainAfterVerify(loaded, branch, slots, checked, verified,
                                  ReturnedObjects(checked, verified,
                                                  Len(UncheckedTail(working))),
                                  strictMode, now) :
                   verified \in {verifyFinish(InputItems(working), UncheckedTail(working),
                                              slots, strictMode)} }) :
            checked \in {Placed(Placed(Placed(loaded, created), working),
                                [i \in 1..Len(InputItems(working)) |->
                                    ApplyCheck(working[i], CheckOrDefault(slots[i], working[i]))])} })

\* main() from the parse of the previous snapshot on
MainFromLoaded(loaded, created, merged, disableCarryForward, answers, strictMode, now) ==
    Only({ MainFromWorking(loaded, created, working,
                           IF Len(merged) > 0 THEN "live"
                           ELSE IF Len(loaded) > 0 /\ ~disableCarryForward
                                THEN "carried_forward" ELSE "fallback",
                           PoolChecks(InputItems(working), answers), strictMode, now) :
            working \in {WorkingObjects(loaded, merged, disableCarryForward, now)} })

\* main() from the load of the previous snapshot to its end: the store of the
\* process at the end of the run, and the list that is written
MainOnObjects(previous, allItems, disableCarryForward, answers, strictMode, now) ==
    Only({ Only({ MainFromLoaded(loaded, created, Computed(mergeAndDedupe(created)),
                                 disableCarryForward, answers, strictMode, now) :
                   created \in {NewObjects(loaded, allItems)} }) :
            loaded \in {LoadedObjects(previous)} })

\* the answers to the checks of one run: one for each position within the cap
AllAnswers == [1..MAX_URL_CHECK_ITEMS -> AnswerKinds]

EveryUrlAnswers == [i \in 1..MAX_URL_CHECK_ITEMS |-> "ok"]

\* the file after the runs that found `yields`, every checked URL answering 200
RECURSIVE SnapshotAfter(_)
SnapshotAfter(yields) ==
    IF Len(yields) = 0 THEN << >>
    ELSE LET written == MainOnObjects(SnapshotAfter(SubSeq(yields, 1, Len(yields) - 1)),
                                      yields[Len(yields)], FALSE, EveryUrlAnswers, FALSE,
                                      Len(yields)).written
         IN  Computed([i \in 1..Len(written) |-> Untagged(written[i])])

\* previous snapshots: none, the one of a live run, the one of a run that
\* carried it forward, and the one of a run that fell back to the static items
PreviousSnapshots ==
    { SnapshotAfter(yields) :
        yields \in { << >>,
                     << <<DraftA(1), DraftA2(1), DraftB(1)>> >>,
                     << <<DraftA(1), DraftA2(1), DraftB(1)>>, << >> >>,
                     << << >> >> } }

CallMainOnObjects ==
    /\ pc = "pure" /\ call = None
    /\ \E previous \in PreviousSnapshots, yields \in AllYields(3), strictMode \in BOOLEAN,
          disableCarryForward \in BOOLEAN, answers \in AllAnswers :
          call' = Some([fn |-> "main",
                        args |-> <<previous, Concat(yields, 1), disableCarryForward, answers,
                                   strictMode>>,
                        res |-> MainOnObjects(previous, Concat(yields, 1), disableCarryForward,
                                              answers, strictMode, 3)])
    /\ UNCHANGED <<run, pc, strict, dataFile, previousItems, deduped, liveCount, origin,
                   urlVerification, cursor, checks, wpc, widx, whead, discovery, sender, probes>>

\* ---- canonicalizeUrl on URLs whose path ends in slashes ----
SlashedPaths ==
    { base \o slashes : base \in {"", "/opportunity/a", "/funding/calls/2026"},
                        slashes \in {"", "/", "//", "///"} } \ {""}

CanonicalInputs ==
    { Url(protocol, hostname, pathname, hash) :
         protocol \in {"https:", "http:"},
         hostname \in {"www.ukri.org", "royalsociety.org", "example.com"},
         pathname \in SlashedPaths, hash \in {"", "apply", "top"} }
    \cup { BadUrl("/opportunity/relative/"), BadUrl("not a url//") }

\* the url stored on an item (canonicalizeUrl(rawUrl)) and the key that
\* mergeAndDedupe computes from the stored url
CallCanonicalizeUrl ==
    /\ pc = "pure" /\ call = None
    /\ \E rawUrl \in CanonicalInputs :
          call' = Some([fn |-> "canonicalizeUrl", args |-> <<rawUrl>>,
                        res |-> Href(canonicalizeUrl(rawUrl)),
                        key |-> Href(canonicalizeUrl(canonicalizeUrl(rawUrl)))])
    /\ UNCHANGED <<run, pc, strict, dataFile, previousItems, deduped, liveCount, origin,
                   urlVerification, cursor, checks, wpc, widx, whead, discovery, sender, probes>>

InitPure ==
    /\ run = 0 /\ pc = "pure" /\ strict = FALSE
    /\ dataFile = None
    /\ previousItems = << >> /\ deduped = << >> /\ liveCount = 0 /\ origin = "none"
    /\ urlVerification = None
    /\ cursor = 0 /\ checks = << >>
    /\ wpc = [w \in Workers |-> "off"]
    /\ widx = [w \in Workers |-> 0]
    /\ whead = [w \in Workers |-> None]
    /\ call = None
    /\ discovery = None
    /\ sender = SenderIdle
    /\ probes = NoProbes

NextPure ==
    \/ CallMergeAndDedupe
    \/ CallCheckOpportunityUrl
    \/ CallBuildFingerprint
    \/ CallExtractDeadline
    \/ CallInferStatus

SpecPure == InitPure /\ [][NextPure]_vars

\* the functions that work on the published dataset: the validator and the page
NextPublished ==
    \/ CallValidateDataset
    \/ CallRankItems
    \/ CallPersistAndLoad

SpecPublished == InitPure /\ [][NextPublished]_vars

NextEnrich ==
    \/ CallEnrichWithSummaries
    \/ CallEnrichWithPrevious

SpecEnrich == InitPure /\ [][NextEnrich]_vars

NextDigest ==
    \/ CallCreateDigest
    \/ CallCreateDigestAt

SpecDigest == InitPure /\ [][NextDigest]_vars

NextSnapshot == CallMainOnObjects

SpecSnapshot == InitPure /\ [][NextSnapshot]_vars

NextCanonical == CallCanonicalizeUrl

SpecCanonical == InitPure /\ [][NextCanonical]_vars

-----------------------------------------------------------------------------
(* Properties *)

Indices(seq) == 1..Len(seq)

UrlKey(url) == Href(canonicalizeUrl(url))

IsCall(fn) == IsSome(call) /\ Val(call).fn = fn

StatusOf(slot) == IF IsSome(slot) THEN Val(slot).status ELSE "none"

\* every checked item ended with network_error, and at least one was checked
Outage == Len(checks) > 0 /\ \A i \in Indices(checks) : StatusOf(checks[i]) = "network_error"

\* C1: in every dataset that is written, no two published items have the same
\* id and no two have the same canonical url.
C1_UniqueIdsAndUrls ==
    IsSome(dataFile) =>
        LET items == Val(dataFile).items
        IN  \A i, j \in Indices(items) :
               i /= j => /\ items[i].id /= items[j].id
                         /\ UrlKey(items[i].url) /= UrlKey(items[j].url)

\* a run that published after two candidates with different ids were
\* redirected to the same final URL
C1_Witness ==
    /\ pc = "done" /\ origin = "live" /\ Len(deduped) > 0
    /\ LET verified == Val(urlVerification).items
       IN  \E i, j \in Indices(verified) :
              /\ i /= j
              /\ verified[i].id /= verified[j].id
              /\ UrlKey(verified[i].url) = UrlKey(verified[j].url)

\* C2 as claimed: of two items with the same canonical URL, one with a
\* 200-character description and no deadline and one with a 50-character
\* description and a deadline, mergeAndDedupe keeps the one with the deadline,
\* in either input order.
C2_DeadlineItemKept ==
    IsCall("mergeAndDedupe") =>
        LET a == Val(call).args[1]
            b == Val(call).args[2]
            res == Val(call).res
            Long(x) == Len(x.description) = 200 /\ x.deadline = None
            Dated(x) == Len(x.description) = 50 /\ x.deadline /= None
        IN  UrlKey(a.url) = UrlKey(b.url) =>
               /\ (Long(a) /\ Dated(b)) => \E k \in Indices(res) : res[k] = b
               /\ (Long(b) /\ Dated(a)) => \E k \in Indices(res) : res[k] = a

\* C2 as the code has it: of two items with the same canonical URL exactly one
\* is kept, the one with the larger score (description length, plus 30 when
\* the item has a deadline), the first one on a tie; items with different
\* canonical URLs are both kept, in order.
C2_HigherScoreKept ==
    IsCall("mergeAndDedupe") =>
        LET a == Val(call).args[1]
            b == Val(call).args[2]
            res == Val(call).res
            Score(x) == Len(x.description) + (IF x.deadline /= None THEN 30 ELSE 0)
        IN  IF UrlKey(a.url) = UrlKey(b.url)
            THEN res = <<IF Score(b) > Score(a) THEN b ELSE a>>
            ELSE res = <<a, b>>

\* the 200-character item without a deadline wins over the 50-character item
\* with one, whichever comes first
C2_Witness ==
    /\ IsCall("mergeAndDedupe")
    /\ LET a == Val(call).args[1]
           b == Val(call).args[2]
       IN  /\ UrlKey(a.url) = UrlKey(b.url)
           /\ Len(a.description) = 50 /\ a.deadline /= None
           /\ Len(b.description) = 200 /\ b.deadline = None
           /\ Val(call).res = <<b>>

\* the response checkOpportunityUrl classifies: the GET after a HEAD that was
\* answered 403, 405, 429, 500 or 501, the HEAD otherwise
FinalResponse(head, get) ==
    IF ~head.threw /\ head.status \in {403, 405, 429, 500, 501} THEN get ELSE head

\* the status the claim C3 gives to a probe outcome; otherFailure is the
\* status of a failure that is neither a network failure nor a timeout
ClaimedStatus(item, source, final, otherFailure) ==
    LET allowedHost == hostMatchesAllowed(getHost(canonicalizeUrl(final.url)),
                                          resolveAllowedHosts(source))
    IN  IF final.threw
        THEN IF final.message \in {NetworkFailure.message, AbortFailure.message}
             THEN "network_error" ELSE otherFailure
        ELSE IF final.status < 200 \/ final.status > 299
        THEN IF final.status \in {401, 403, 429} /\ allowedHost
             THEN "reachable_restricted" ELSE "http_error"
        ELSE IF ~allowedHost THEN "bad_host"
        ELSE IF UrlKey(final.url) = UrlKey(item.url) THEN "reachable"
        ELSE "reachable_with_redirect"

\* C3 as claimed: for an http(s) URL on an allowed host the status is
\* network_error, reachable_restricted, http_error, bad_host, reachable or
\* reachable_with_redirect as the final response dictates, and no probe
\* failure gives a status outside these six.
C3_SixStatuses ==
    IsCall("checkOpportunityUrl") =>
        LET item == Val(call).args[1]
            source == Val(call).args[2]
            final == FinalResponse(Val(call).args[3], Val(call).args[4])
            res == Val(call).res
        IN  /\ res.status \in {"network_error", "reachable_restricted", "http_error",
                               "bad_host", "reachable", "reachable_with_redirect"}
            /\ res.status = ClaimedStatus(item, source, final, res.status)

\* C3 as the code has it: the six statuses as claimed (URLs compared in
\* canonical form), and check_error for a probe that fails with an error that
\* does not look like a network failure or a timeout.
C3_SevenStatuses ==
    IsCall("checkOpportunityUrl") =>
        LET item == Val(call).args[1]
            source == Val(call).args[2]
            final == FinalResponse(Val(call).args[3], Val(call).args[4])
            res == Val(call).res
        IN  res.status = ClaimedStatus(item, source, final, "check_error")

\* a GET, issued after a HEAD answered 405, fails with an error that is no
\* network failure
C3_Witness ==
    /\ IsCall("checkOpportunityUrl")
    /\ Val(call).args[3] = Resp(405, Val(call).args[1].url)
    /\ Val(call).args[4] = OtherFailure
    /\ Val(call).res.status = "check_error"

\* C4: in non-strict mode, when every checked item ended with network_error,
\* verifyOpportunityUrls returns every one of them with status
\* unchecked_network_unavailable and its url unchanged, no dropped entries,
\* dropped = 0 and networkUnavailable = true.
C4_OutageDropsNothing ==
    (pc = "returned" /\ ~strict /\ Outage) =>
        LET r == Val(urlVerification)
        IN  /\ ~r.threw
            /\ Len(r.items) = Len(deduped)
            /\ \A i \in Indices(checks) :
                  /\ r.items[i].id = deduped[i].id
                  /\ r.items[i].url = deduped[i].url
                  /\ Val(r.items[i].urlCheck).status = "unchecked_network_unavailable"
            /\ r.droppedItems = << >>
            /\ r.summary.dropped = 0
            /\ r.summary.networkUnavailable

\* a non-strict call with two checked items, both network_error, and one item
\* beyond the check cap
C4_Witness ==
    /\ pc = "returned" /\ ~strict /\ Outage
    /\ Len(checks) = MAX_URL_CHECK_ITEMS /\ Len(deduped) > Len(checks)

\* C5: in strict mode, a run in which every checked item ended with
\* network_error, or in which no item survives verification, ends with an
\* error and leaves the dataset file as it was.
C5_StrictFailureWritesNothing ==
    [][ (/\ pc = "verify" /\ pc' /= "verify" /\ strict'
         /\ Outage \/ Val(urlVerification').items = << >>)
        => (pc' = "failed" /\ dataFile' = dataFile) ]_vars

\* a strict run that failed on an outage while an earlier dataset is published
C5_Witness ==
    /\ pc = "failed" /\ strict /\ Outage
    /\ IsSome(dataFile) /\ Val(dataFile).items = previousItems /\ Len(previousItems) > 0

\* C6: outside the network-unavailable fallback, a checked item is returned
\* exactly when its status is reachable, reachable_with_redirect or
\* reachable_restricted, with its url the canonical final URL and
\* allowedHost true; any other checked item is not returned and has exactly
\* one dropped entry, whose reason is its status.
C6_KeptOrDropped ==
    (pc = "returned" /\ ~Outage) =>
        LET r == Val(urlVerification)
            Kept(i) == {k \in Indices(r.items) : r.items[k].id = deduped[i].id}
            Dropped(i) == {k \in Indices(r.droppedItems) : r.droppedItems[k].id = deduped[i].id}
        IN  /\ ~r.threw
            /\ \A i \in Indices(checks) :
                  IF StatusOf(checks[i]) \in {"reachable", "reachable_with_redirect",
                                              "reachable_restricted"}
                  THEN /\ Cardinality(Kept(i)) = 1 /\ Dropped(i) = {}
                       /\ \A k \in Kept(i) :
                             LET urlCheck == Val(r.items[k].urlCheck)
                             IN  /\ urlCheck.status = StatusOf(checks[i])
                                 /\ r.items[k].url = canonicalizeUrl(Val(urlCheck.finalUrl))
                                 /\ urlCheck.allowedHost
                  ELSE /\ Kept(i) = {} /\ Cardinality(Dropped(i)) = 1
                       /\ \A k \in Dropped(i) : r.droppedItems[k].reason = StatusOf(checks[i])

\* a call that kept a redirected item under its final URL and dropped another
C6_Witness ==
    /\ pc = "returned" /\ Len(checks) = 2
    /\ StatusOf(checks[1]) = "reachable_with_redirect"
    /\ StatusOf(checks[2]) \in {"http_error", "bad_host", "check_error"}
    /\ Val(urlVerification).items[1].url /= deduped[1].url

\* C7 as claimed: every dataset the pipeline writes has at least one item.
C7_DatasetNeverEmpty ==
    IsSome(dataFile) => Len(Val(dataFile).items) >= 1

\* C8 as claimed: a run that carries the previous snapshot forward and finds
\* every URL reachable publishes exactly the ids of the previous snapshot.
C8_CarryForwardKeepsIds ==
    (/\ pc = "done" /\ origin = "carried_forward"
     /\ Len(checks) = Len(previousItems)
     /\ \A i \in Indices(checks) : StatusOf(checks[i]) = "reachable")
    => {deduped[i].id : i \in Indices(deduped)}
         = {previousItems[i].id : i \in Indices(previousItems)}

\* C9: a published item has isNew = true exactly when its id is not in the
\* previous snapshot, isUpdated = true exactly when its id is there with
\* another fingerprint, and never both.
C9_DiffFlags ==
    pc = "done" =>
        /\ Val(dataFile).items = deduped
        /\ \A i \in Indices(deduped) :
              LET item == deduped[i]
                  prev == {k \in Indices(previousItems) : previousItems[k].id = item.id}
                  changed == \E k \in prev : previousItems[k].fingerprint /= item.fingerprint
              IN  /\ item.isNew = Some(prev = {})
                  /\ item.isUpdated = Some(prev /= {} /\ changed)
                  /\ ~(item.isNew = Some(TRUE) /\ item.isUpdated = Some(TRUE))

\* a dataset with an updated item next to an unchanged one
C9_Witness ==
    /\ pc = "done"
    /\ \E i \in Indices(deduped) :
          deduped[i].isNew = Some(FALSE) /\ deduped[i].isUpdated = Some(TRUE)
    /\ \E i \in Indices(deduped) :
          deduped[i].isNew = Some(FALSE) /\ deduped[i].isUpdated = Some(FALSE)

\* the six values buildFingerprint reads
SixValues(item) ==
    <<item.title, Href(item.url), item.deadline, item.amount, item.status,
      SubSeq(item.description, 1, Min(320, Len(item.description)))>>

\* C10: two items equal on title, url, deadline, amount, status and the first
\* 320 characters of the description have the same fingerprint; two items
\* that differ in exactly one of the six have different fingerprints.
C10_FingerprintOfSixValues ==
    IsCall("buildFingerprint") =>
        LET a == Val(call).args[1]
            b == Val(call).args[2]
            differing == {k \in 1..6 : SixValues(a)[k] /= SixValues(b)[k]}
        IN  /\ differing = {} => Val(call).res[1] = Val(call).res[2]
            /\ Cardinality(differing) = 1 => Val(call).res[1] /= Val(call).res[2]

\* two items whose descriptions differ only after the 320th character
C10_Witness ==
    /\ IsCall("buildFingerprint")
    /\ LET a == Val(call).args[1]
           b == Val(call).args[2]
       IN  /\ a.description /= b.description
           /\ Len(a.description) > 320
           /\ SixValues(a) = SixValues(b)
           /\ Val(call).res[1] = Val(call).res[2]

\* the day exists in the calendar
RealDay(date) == date[3] >= 1 /\ date[2] \in 1..12 /\ date[3] <= DaysInMonth(date[1], date[2])

IsoText(date) == Pad(date[1], 4) \o "-" \o Pad(date[2], 2) \o "-" \o Pad(date[3], 2)

\* C11: extractDeadline returns null for a text whose only date is an impossible
\* calendar day, returns that day as YYYY-MM-DD for a text whose date is a real
\* day, and applied to its own non-null result returns the same value.
C11_NoImpossibleDate ==
    IsCall("extractDeadline") =>
        LET c == Val(call)
            t == c.args[1]
        IN  /\ IsSome(t.date) /\ ~RealDay(Val(t.date)) => c.res = None
            /\ IsSome(t.date) /\ RealDay(Val(t.date)) => c.res = Some(IsoText(Val(t.date)))
            /\ IsSome(c.res) => c.again = c.res

\* the parts of C11 that hold of the code: real days and the fixed point
C11_RealDayAndFixedPoint ==
    IsCall("extractDeadline") =>
        LET c == Val(call)
            t == c.args[1]
        IN  /\ IsSome(t.date) /\ RealDay(Val(t.date)) => c.res = Some(IsoText(Val(t.date)))
            /\ ~IsSome(t.date) => c.res = None
            /\ IsSome(c.res) => c.again = c.res

ClosedLanguage(text) == Includes(ToLowerCase(text), "closed")
OpenLanguage(text) == Includes(ToLowerCase(text), "open")

\* the last second of the deadline day (23:59:59 UTC) is before now
DeadlinePast(deadlineIso, dateNow) ==
    LET y == ParseDigits(SubSeq(deadlineIso, 1, 4), 0)
        m == ParseDigits(SubSeq(deadlineIso, 6, 7), 0)
        d == ParseDigits(SubSeq(deadlineIso, 9, 10), 0)
        end == 23 * 3600000 + 59 * 60000 + 59 * 1000
    IN  \/ DaysFromCivil(y, m, d) < dateNow[1]
        \/ DaysFromCivil(y, m, d) = dateNow[1] /\ end < dateNow[2]

\* C12: inferStatus follows the decision table: closed language gives closed;
\* otherwise open language gives open unless the deadline is past, then closed;
\* otherwise a deadline gives open when not past and closed when past; otherwise
\* unknown. A deadline is past only once 23:59:59 UTC of its day is before now.
C12_StatusTable ==
    IsCall("inferStatus") =>
        LET c == Val(call)
            text == c.args[1]
            dl == c.args[2]
            past == IsSome(dl) /\ DeadlinePast(Val(dl), c.args[3])
        IN  c.res = CASE ClosedLanguage(text) -> "closed"
                      [] ~ClosedLanguage(text) /\ OpenLanguage(text) /\ past -> "closed"
                      [] ~ClosedLanguage(text) /\ OpenLanguage(text) /\ ~past -> "open"
                      [] ~ClosedLanguage(text) /\ ~OpenLanguage(text) /\ IsSome(dl) /\ past -> "closed"
                      [] ~ClosedLanguage(text) /\ ~OpenLanguage(text) /\ IsSome(dl) /\ ~past -> "open"
                      [] OTHER -> "unknown"

\* open language with a deadline whose day ended one millisecond ago: closed
C12_Witness ==
    /\ IsCall("inferStatus")
    /\ OpenLanguage(Val(call).args[1]) /\ ~ClosedLanguage(Val(call).args[1])
    /\ Val(call).args[2] = Some("2026-02-01")
    /\ Val(call).args[3] = <<DaysFromCivil(2026, 2, 1), MsPerDay - 999>>
    /\ Val(call).res = "closed"

\* positions of the markdown at which `part` starts
PositionsOf(markdown, part) ==
    {p \in 1..Len(markdown) : SubSeq(markdown, p, Min(p + Len(part) - 1, Len(markdown))) = part}

\* number of item lines between the heading of the new items and the next heading
ListedNew(markdown) ==
    LET from == CHOOSE p \in PositionsOf(markdown, "## New Opportunities") : TRUE
        to == CHOOSE p \in PositionsOf(markdown, "## Closing Soon") : TRUE
    IN  Cardinality({p \in PositionsOf(markdown, "\n- [") : from < p /\ p < to})

\* C13: createDigest returns a digest for every input: stats.newItems counts the
\* current items whose id is absent from the previous dataset, stats.updatedItems
\* those present with a different fingerprint, both uncapped and equal to the
\* dataset's newToday and updatedToday; the markdown is never empty, carries the
\* no-new-items line when nothing is new, and lists at most 12 new items.
C13_DigestCounts ==
    IsCall("createDigest") =>
        LET c == Val(call)
            items == c.args[1]
            previous == c.args[2]
            ids == {previous[j].id : j \in 1..Len(previous)}
            fresh == {i \in 1..Len(items) : items[i].id \notin ids}
            changed == {i \in 1..Len(items) :
                          /\ items[i].id \in ids
                          /\ PrevGet(previous, items[i].id)[1].fingerprint /= items[i].fingerprint}
        IN  /\ c.res.stats.newItems = Cardinality(fresh)
            /\ c.res.stats.updatedItems = Cardinality(changed)
            /\ c.res.stats.newItems = c.stats.newToday
            /\ c.res.stats.updatedItems = c.stats.updatedToday
            /\ c.res.markdown /= ""
            /\ fresh = {} => PositionsOf(c.res.markdown, NoNewItemsLine) /= {}
            /\ ListedNew(c.res.markdown) <= 12

\* thirteen new items and one updated item: the counts are 13 and 1, twelve are listed
C13_Witness ==
    /\ IsCall("createDigest")
    /\ Val(call).res.stats.newItems = 13
    /\ Val(call).res.stats.updatedItems = 1
    /\ ListedNew(Val(call).res.markdown) = 12

\* nothing new and nothing updated: a digest with the placeholder line
C13_WitnessEmpty ==
    /\ IsCall("createDigest")
    /\ Val(call).res.stats.newItems = 0 /\ Val(call).res.stats.updatedItems = 0
    /\ PositionsOf(Val(call).res.markdown, NoNewItemsLine) /= {}

\* the answer is a response with a JSON object in it
Parseable(answer) ==
    ~answer.threw /\ answer.ok /\ IsSome(answer.body) /\ IsSome(Val(answer.body).json)

\* a parseable answer whose summary is absent or a string
Usable(answer) ==
    /\ Parseable(answer)
    /\ LET raw == Val(Val(answer.body).json).summary_en
       IN  IsSome(raw) => Val(raw).t = "string" \/ ~JsTruthy(Val(raw))

\* the first model of the list whose index is in good, "heuristic" if none
FirstModel(models, good) ==
    IF good = {} THEN "heuristic"
    ELSE models[CHOOSE i \in good : \A j \in good : i <= j]

DiscoveryOver == IsSome(discovery) /\ Val(discovery).src > Len(Sources)

FailedFetches(d) == {i \in 1..Len(d.fetched) : ~d.fetched[i].ok}

\* the error entries of `errors` that record the failed fetch f
EntriesOf(errors, f) ==
    {j \in 1..Len(errors) :
        IF f.kind = "seed" THEN errors[j].seedUrl = f.url /\ errors[j].detailUrl = None
        ELSE errors[j].detailUrl = Some(f.url)}

\* the seed URLs of all sources, in the order of the configuration
RECURSIVE AllSeeds(_, _)
AllSeeds(config, i) ==
    IF i > Len(Sources) THEN << >>
    ELSE SeedUrls(config, Sources[i]) \o AllSeeds(config, i + 1)

\* the urls of the fetches of kind `kind`, in the order they were made
FetchedUrls(d, kind) ==
    LET picked == SelectIdx(d.fetched, {i \in 1..Len(d.fetched) : d.fetched[i].kind = kind}, 1)
    IN  [i \in 1..Len(picked) |-> picked[i].url]

\* the candidates a fetched seed page gives
CandidatesOf(seedUrl) ==
    IF seedUrl = SeedA THEN SeedCandidates(ListingA, SrcUkri, SeedA, MaxPerSource)
    ELSE IF seedUrl = SeedB THEN SeedCandidates(ListingB, SrcUkri, SeedB, MaxPerSource)
    ELSE << >>

\* no failed fetch stopped discovery or left an item behind: every seed URL of
\* every source was fetched, in order and source by source; every candidate of
\* a fetched seed page was fetched too, unless its source had MAX_DETAIL_FETCH
\* items by then; and no item of a source has the url of a failed candidate
FailuresNotFatal(d) ==
    /\ FetchedUrls(d, "seed") = AllSeeds(d.config, 1)
    /\ \A i \in 1..Len(d.fetched), j \in 1..Len(d.fetched) :
          i < j => /\ d.fetched[i].src <= d.fetched[j].src
                   /\ d.fetched[i].src = d.fetched[j].src /\ d.fetched[j].kind = "seed"
                         => d.fetched[i].kind = "seed"
    /\ \A i \in 1..Len(d.fetched) :
          d.fetched[i].kind = "seed" /\ d.fetched[i].ok =>
             \A c \in 1..Len(CandidatesOf(d.fetched[i].url)) :
                \/ \E j \in (i + 1)..Len(d.fetched) :
                      /\ d.fetched[j].kind = "detail"
                      /\ d.fetched[j].url = CandidatesOf(d.fetched[i].url)[c].url
                \/ Cardinality({m \in 1..Len(d.allItems) :
                                  d.allItems[m].sourceId = Sources[d.fetched[i].src].id})
                      >= MAX_DETAIL_FETCH
    /\ \A i \in FailedFetches(d) :
          d.fetched[i].kind = "detail" =>
             \A m \in 1..Len(d.allItems) :
                d.allItems[m].sourceId = Sources[d.fetched[i].src].id
                   => d.allItems[m].url /= canonicalizeUrl(d.fetched[i].url)

\* C15 as stated: a failed fetch of a seed URL or of a candidate page is never
\* fatal: it has exactly one entry in the diagnostics errors of the output, no
\* item is produced for that candidate, and every remaining seed URL, candidate
\* and source is still processed in order.
C15_OneDiagnosticsEntryPerFailure ==
    DiscoveryOver =>
        LET d == Val(discovery)
        IN  /\ \A i \in FailedFetches(d) :
                  Cardinality(EntriesOf(diagnosticsErrors(d.allErrors), d.fetched[i])) = 1
            /\ FailuresNotFatal(d)

\* C15: a failed fetch of a seed URL or of a candidate page is never fatal: it
\* adds exactly one entry to the error list of the run, of which the output's
\* diagnostics keep the first 120; no item is produced for that candidate, and
\* every remaining seed URL, candidate and source is still processed in order.
C15_FetchFailureNotFatal ==
    DiscoveryOver =>
        LET d == Val(discovery)
        IN  /\ Len(d.allErrors) = Cardinality(FailedFetches(d))
            /\ \A i \in FailedFetches(d) :
                  /\ Cardinality(EntriesOf(d.allErrors, d.fetched[i])) = 1
                  /\ \A j \in EntriesOf(d.allErrors, d.fetched[i]) :
                        j <= DiagnosticsCap =>
                           diagnosticsErrors(d.allErrors)[j] = d.allErrors[j]
            /\ Len(diagnosticsErrors(d.allErrors)) = Min(DiagnosticsCap, Len(d.allErrors))
            /\ FailuresNotFatal(d)
            /\ pc /= "failed" \/ IsSome(urlVerification)

\* the first seed page was fetched, a candidate of it failed, the second seed
\* URL failed, and the feed of the next source still gave its item
C15_Witness ==
    /\ DiscoveryOver
    /\ LET d == Val(discovery)
       IN  /\ d.config = "standard"
           /\ \E i \in FailedFetches(d) : d.fetched[i].kind = "detail" /\ d.fetched[i].url = LinkA
           /\ \E i \in FailedFetches(d) : d.fetched[i].kind = "seed" /\ d.fetched[i].url = SeedB
           /\ Len(d.allErrors) = 2
           /\ \E m \in 1..Len(d.allItems) : d.allItems[m].sourceId = SrcRoyal.id

\* every seed URL of every source was fetched and every one of these fetches failed
AllSourcesFailed ==
    /\ DiscoveryOver
    /\ FetchedUrls(Val(discovery), "seed") = AllSeeds(Val(discovery).config, 1)
    /\ \A i \in 1..Len(Val(discovery).fetched) : ~Val(discovery).fetched[i].ok

\* C16: when all sources fail (every seed URL fetch of every configured source
\* fails), the run aborts with a non-zero outcome and no dataset is published.
C16_AllSourcesFailAborts ==
    AllSourcesFailed => pc \in {"verify", "failed"} /\ dataFile = None

DuplicatedIdMessage(items, j) ==
    "items[" \o ToString(j - 1) \o "].id is duplicated (" \o items[j].id \o ")"

RepeatsEarlierId(items, j) ==
    items[j].id /= "" /\ \E i \in 1..(j - 1) : items[i].id = items[j].id

\* C17: validateDataset, with strict URL checking on or off, reports at least
\* one error when two items of the dataset carry the same non-empty id: the
\* error list has the "id is duplicated" entry of every item that repeats the
\* id of an earlier one, no such entry for any other item, and no such entry
\* among the warnings.
C17_DuplicateIdIsError ==
    IsCall("validateDataset") =>
        LET items == Val(call).args[1].items
            res == Val(call).res
        IN  /\ \A j \in 1..Len(items) :
                  RepeatsEarlierId(items, j)
                  <=> \E e \in 1..Len(res.errors) :
                         res.errors[e].message = DuplicatedIdMessage(items, j)
            /\ (\E j \in 1..Len(items) : RepeatsEarlierId(items, j)) => Len(res.errors) >= 1
            /\ \A e \in 1..Len(res.errors) :
                  Includes(res.errors[e].message, ".id is duplicated")
                  => \E j \in 1..Len(items) :
                        /\ RepeatsEarlierId(items, j)
                        /\ res.errors[e].message = DuplicatedIdMessage(items, j)
            /\ \A w \in 1..Len(res.warnings) :
                  ~Includes(res.warnings[w].message, ".id is duplicated")

\* two items that are valid but for their shared id, validated without strict
\* URL checking: the duplicate is the only error
C17_Witness ==
    /\ IsCall("validateDataset")
    /\ ~Val(call).args[2]
    /\ Len(Val(call).args[1].items) = 2
    /\ Val(call).args[1].items[1].id = DraftA(0).id
    /\ Val(call).args[1].items[2].id = DraftA(0).id
    /\ Len(Val(call).res.errors) = 1
    /\ Val(call).res.errors[1].message = DuplicatedIdMessage(Val(call).args[1].items, 2)

\* the fields of a returned item that it has from the input item
InputFields(r) == [f \in DOMAIN r \ {"matchScore", "matchReasons", "daysLeftValue"} |-> r[f]]

\* an input item passes every active filter
PassesFilters(item, filters, profile, nowMs) ==
    /\ matchesFilters(item, filters)
    /\ scoreItem(item, profile, nowMs).score >= filters.minMatch
    /\ filters.openOnly => item.status = "open"
    /\ filters.closingSoonOnly =>
          /\ IsSome(daysLeft(item.deadline, nowMs))
          /\ Val(daysLeft(item.deadline, nowMs)) >= 0
          /\ Val(daysLeft(item.deadline, nowMs)) <= 14

HasDeadlineDay(item) == Truthy(item.deadline) /\ IsSome(DateParseDay(Val(item.deadline)))

DeadlineDay(item) == Val(DateParseDay(Val(item.deadline)))

\* a may stand directly before b in a list ordered by the sort key with ties
\* broken by title.  Two items without a deadline have the same deadline key;
\* where an item without a deadline stands among those with one is left open.
InOrder(a, b, sortBy) ==
    LET byTitle == localeCompare(a.title, b.title) <= 0
    IN  CASE sortBy \in {"deadline_asc", "deadline_desc"} ->
               IF HasDeadlineDay(a) /\ HasDeadlineDay(b)
               THEN IF DeadlineDay(a) = DeadlineDay(b) THEN byTitle
                    ELSE (sortBy = "deadline_asc") = (DeadlineDay(a) < DeadlineDay(b))
               ELSE IF ~HasDeadlineDay(a) /\ ~HasDeadlineDay(b) THEN byTitle
               ELSE TRUE
          [] sortBy = "source_asc" ->
               \/ localeCompare(a.sourceName, b.sourceName) < 0
               \/ localeCompare(a.sourceName, b.sourceName) = 0 /\ byTitle
          [] sortBy = "title_asc" -> byTitle
          [] OTHER ->
               a.matchScore > b.matchScore \/ (a.matchScore = b.matchScore /\ byTitle)

\* the returned items are the input items that pass every active filter, each
\* with its input fields unchanged
RankedAreThePassing ==
    IsCall("rankItems") =>
        LET items == Val(call).args[1]
            filters == Val(call).args[2]
            profile == Val(call).args[3]
            nowMs == Val(call).args[4]
            res == Val(call).res
        IN  /\ \A r \in 1..Len(res) :
                  \E i \in 1..Len(items) :
                     /\ InputFields(res[r]) = items[i]
                     /\ PassesFilters(items[i], filters, profile, nowMs)
            /\ \A i \in 1..Len(items) :
                  PassesFilters(items[i], filters, profile, nowMs)
                  => \E r \in 1..Len(res) : InputFields(res[r]) = items[i]
            /\ \A r, q \in 1..Len(res) : r /= q => InputFields(res[r]) /= InputFields(res[q])

RankedInOrder ==
    IsCall("rankItems") =>
        LET res == Val(call).res
        IN  \A r \in 1..(Len(res) - 1) : InOrder(res[r], res[r + 1], Val(call).args[2].sortBy)

\* C18: every item rankItems returns passes all active filters (matchesFilters
\* on keyword, type, status and source; matchScore >= minMatch; status open
\* when openOnly; 0 <= daysLeft <= 14 when closingSoonOnly), no input item that
\* passes them is left out, each returned item has the fields of its input
\* item unchanged, and the result is ordered by the selected sort key (match
\* score descending by default) with ties broken by title.
C18_RankedFilteredSorted == RankedAreThePassing /\ RankedInOrder

\* what does hold of the order: ties are broken by title except between two
\* items without a usable deadline under a deadline sort, which stay in input
\* order
C18_OrderedButUndated ==
    IsCall("rankItems") =>
        LET res == Val(call).res
            sortBy == Val(call).args[2].sortBy
            items == Val(call).args[1]
            At(x) == CHOOSE i \in 1..Len(items) : items[i] = InputFields(x)
        IN  /\ RankedAreThePassing
            /\ \A r \in 1..(Len(res) - 1) :
                  IF /\ sortBy \in {"deadline_asc", "deadline_desc"}
                     /\ ~HasDeadlineDay(res[r]) /\ ~HasDeadlineDay(res[r + 1])
                  THEN At(res[r]) < At(res[r + 1])
                  ELSE InOrder(res[r], res[r + 1], sortBy)

\* rankItems has returned two items without a deadline, sorted by deadline,
\* the later title first
C18_UndatedOutOfTitleOrder ==
    /\ IsCall("rankItems")
    /\ Val(call).args[2].sortBy = "deadline_asc"
    /\ Len(Val(call).res) = 2
    /\ ~HasDeadlineDay(Val(call).res[1]) /\ ~HasDeadlineDay(Val(call).res[2])
    /\ localeCompare(Val(call).res[1].title, Val(call).res[2].title) > 0

\* the requests the sender made in its run n
RequestsOf(n) == SelectSeq(sender.requests, LAMBDA r : r.run = n)

\* the digest the run read reports no new and no updated item
ReportsNoChanges(payload) ==
    /\ IsSome(payload) /\ IsSome(Val(payload).digest)
    /\ IsSome(Val(Val(payload).digest).stats)
    /\ Val(Val(Val(payload).digest).stats).newItems
       + Val(Val(Val(payload).digest).stats).updatedItems = 0

\* run n is one the sender has to skip: nothing to report and SEND_EMPTY_DIGEST
\* not set, or no API key
MustSkip(n) ==
    \/ ReportsNoChanges(sender.runs[n].payload) /\ sender.runs[n].env.SEND_EMPTY_DIGEST = ""
    \/ sender.runs[n].env.BUTTONDOWN_API_KEY = ""

\* the outbox file holds the record of run n with a skipped status
OutboxSkipped(n) ==
    /\ IsSome(sender.outboxFile)
    /\ Val(sender.outboxFile).generatedAt = n
    /\ Val(sender.outboxFile).status \in {Some("skipped_no_changes"), Some("skipped_missing_api_key")}

\* every send trigger follows a draft created in its run, and its run is no dry run
TriggerFollowsDraft ==
    \A i \in 1..Len(sender.requests) :
       sender.requests[i].method = "PATCH" =>
          /\ sender.requests[i].status = "about_to_send"
          /\ sender.runs[sender.requests[i].run].env.BUTTONDOWN_DRY_RUN /= "true"
          /\ \E j \in 1..(i - 1) :
                /\ sender.requests[j].run = sender.requests[i].run
                /\ sender.requests[j].method = "POST"
                /\ sender.requests[j].response = "ok"

\* a step that makes a request for the send trigger is the step in which the
\* draft of the running process was created
TriggerStep ==
    (Len(sender'.requests) > Len(sender.requests)
     /\ sender'.requests[Len(sender'.requests)].method = "PATCH")
    => /\ sender.pc = "draft"
       /\ sender'.requests[Len(sender.requests)].method = "POST"
       /\ sender'.requests[Len(sender.requests)].response = "ok"
       /\ sender'.requests[Len(sender.requests)].run = Len(sender.runs)
       /\ sender.runs[Len(sender.runs)].env.BUTTONDOWN_DRY_RUN /= "true"

\* C19: in the digest sender the send trigger (PATCH status about_to_send) is
\* issued only after a draft was created successfully in the same run and
\* never when BUTTONDOWN_DRY_RUN is true; and a run whose digest reports zero
\* new plus updated items (SEND_EMPTY_DIGEST not set), or that has no API key,
\* makes no request to the provider at any time and ends with the outbox file
\* recording a skipped status.
C19_TriggerAndSkips ==
    /\ [][TriggerStep]_vars
    /\ [](/\ TriggerFollowsDraft
          /\ \A n \in 1..Len(sender.runs) :
                MustSkip(n) =>
                   /\ RequestsOf(n) = << >>
                   /\ (n = Len(sender.runs) /\ sender.pc = "done") => OutboxSkipped(n))

\* C19 as the code has it: the same, but the outbox file records the skipped
\* status only when the dataset file was read; when docs/data/funding.latest.json
\* is missing or is not JSON the run fails with no request made and leaves the
\* outbox file as it was.
C19_TriggerAndSkipsOfReadDataset ==
    /\ [][TriggerStep]_vars
    /\ [](/\ TriggerFollowsDraft
          /\ \A n \in 1..Len(sender.runs) :
                MustSkip(n) =>
                   /\ RequestsOf(n) = << >>
                   /\ (n = Len(sender.runs) /\ sender.pc = "done") =>
                         IF IsSome(sender.runs[n].payload)
                         THEN OutboxSkipped(n) /\ sender.exitCode = Some(0)
                         ELSE /\ sender.exitCode = Some(1)
                              /\ ~(IsSome(sender.outboxFile) /\ Val(sender.outboxFile).generatedAt = n))

\* a second run of the sender queued the digest after the first one had been
\* skipped for want of changes
C19_Witness ==
    /\ Len(sender.runs) = 2 /\ sender.pc = "done"
    /\ MustSkip(1) /\ RequestsOf(1) = << >>
    /\ Len(RequestsOf(2)) = 2
    /\ RequestsOf(2)[2].method = "PATCH" /\ RequestsOf(2)[2].response = "ok"
    /\ Val(sender.outboxFile).status = Some("queued_to_send")

\* a run without API key and without dataset file has ended
C19_WitnessNoDataset ==
    /\ sender.pc = "done"
    /\ sender.runs[Len(sender.runs)].payload = None
    /\ sender.runs[Len(sender.runs)].env.BUTTONDOWN_API_KEY = ""
    /\ RequestsOf(Len(sender.runs)) = << >>

\* C20: for every state S of the page, opening the URL that persistState wrote
\* for S restores exactly S (the eight filters and the four profile fields),
\* whatever state the recipient's local storage holds.
C20_UrlRestoresState ==
    IsCall("persistState") => Val(call).res.loaded = Val(call).args[1]

\* what does hold: the URL restores S in a browser that has no stored state
\* (or none that parses), and in every browser it restores the fields of S for
\* which persistState writes a parameter, and the two switches
C20_UrlRestoresWhatItCarries ==
    IsCall("persistState") =>
        LET state == Val(call).args[1]
            storage == Val(call).args[2]
            loaded == Val(call).res.loaded
        IN  /\ storage.kind /= "json" => loaded = state
            /\ loaded.filters.openOnly = state.filters.openOnly
               \/ Val(call).res.search = ""
            /\ loaded.filters.closingSoonOnly = state.filters.closingSoonOnly
               \/ Val(call).res.search = ""
            /\ \A f \in {"keyword", "type", "status", "source"} :
                  state.filters[f] /= "" => loaded.filters[f] = state.filters[f]
            /\ state.filters.sortBy /= "match_desc" => loaded.filters.sortBy = state.filters.sortBy
            /\ state.filters.minMatch > 0 => loaded.filters.minMatch = state.filters.minMatch
            /\ \A f \in DOMAIN state.profile :
                  state.profile[f] /= "" => loaded.profile[f] = state.profile[f]

\* a URL written for a state with an empty keyword was opened in a browser
\* whose storage has a keyword, and the page shows the stored keyword
C20_StoredKeywordLeaks ==
    /\ IsCall("persistState")
    /\ Val(call).args[1].filters.keyword = ""
    /\ Val(call).res.search /= ""
    /\ Val(call).res.loaded.filters.keyword = "postdoc"

-----------------------------------------------------------------------------
(* C21: the requests of fetchUrlMetadata *)

\* the statuses the text calls rejecting: method not allowed, forbidden,
\* rate limited, and the server errors
RejectingStatuses == {403, 405, 429} \cup 500..599

\* the positions of the working set and the requests made for one of them
Positions == DOMAIN probes
RequestsFor(i) == probes[i].requests

\* the slot of position i has been written
SlotWritten(i) == i <= Len(checks) /\ IsSome(checks[i])

\* position i is an item whose URL has to be probed
NeedsProbe(i) == i <= Len(InputItems(deduped)) /\ checkWithoutProbe(deduped[i], SourceFor(deduped[i], Sources)) = None

\* the check that follows from one settled request alone
CheckFrom(i, resp) ==
    classifyMeta(canonicalizeUrl(deduped[i].url),
                 resolveAllowedHosts(SourceFor(deduped[i], Sources)),
                 IF resp.threw THEN MetaThrew(resp.message)
                 ELSE Metadata(canonicalizeUrl(deduped[i].url), resp))

\* the requests of position i are one HEAD, or one HEAD rejected by the
\* server and then one GET
HeadThenGet(i) ==
    LET r == RequestsFor(i)
    IN  /\ Len(r) <= 2
        /\ Len(r) >= 1 => r[1].method = "HEAD"
        /\ Len(r) = 2 => /\ r[2].method = "GET"
                         /\ ~r[1].resp.threw
                         /\ r[1].resp.status \in RejectingStatuses

\* C21: while the pool of verifyOpportunityUrls runs and after it, every
\* probed URL has had exactly one HEAD request, first, and at most one GET
\* request, made only after the HEAD completed with a rejecting status; the
\* check written to the slot is the classification of the last response (the
\* GET's when there was one), and a request that failed was followed by no
\* other request and is recorded in the check.
C21_HeadThenOneGet ==
    PoolRunning \/ pc = "returned" =>
       \A i \in Positions :
          /\ HeadThenGet(i)
          /\ ~NeedsProbe(i) => RequestsFor(i) = << >>
          /\ (SlotWritten(i) /\ NeedsProbe(i)) =>
                LET r == RequestsFor(i)
                IN  /\ Len(r) >= 1
                    /\ Val(checks[i]) = CheckFrom(i, r[Len(r)].resp)
                    /\ r[Len(r)].resp.threw =>
                          /\ Val(checks[i]).status \in {"network_error", "check_error"}
                          /\ Val(checks[i]).error = Some(r[Len(r)].resp.message)
                    /\ NeedsGet(r[1].resp) => Len(r) = 2

\* a HEAD was answered 405, the GET that followed was aborted, and the slot
\* holds a network_error; another URL was settled by its HEAD alone
C21_Witness ==
    /\ pc = "returned"
    /\ \E i \in Positions :
          /\ Len(RequestsFor(i)) = 2
          /\ RequestsFor(i)[1].resp = Resp(405, canonicalizeUrl(deduped[i].url))
          /\ RequestsFor(i)[2].resp = AbortFailure
          /\ Val(checks[i]).status = "network_error"
    /\ \E i \in Positions :
          /\ Len(RequestsFor(i)) = 1
          /\ RequestsFor(i)[1].resp = NetworkFailure
          /\ Val(checks[i]).status = "network_error"

-----------------------------------------------------------------------------
(* C22: the shared cursor and the slots of the worker pool *)

\* the workers whose check is in flight
InFlight == {w \in Workers : wpc[w] \in {"settle", "head", "get"}}

\* the check of the item at position i, from what was requested for it
CheckOfItem(i) ==
    IF NeedsProbe(i) THEN CheckFrom(i, RequestsFor(i)[Len(RequestsFor(i))].resp)
    ELSE Val(checkWithoutProbe(deduped[i], SourceFor(deduped[i], Sources)))

SlotsConsistent ==
    /\ Len(checks) = Len(InputItems(deduped))
    /\ \A w1, w2 \in InFlight : w1 /= w2 => widx[w1] /= widx[w2]
    /\ \A w \in InFlight : probes[widx[w] + 1].takes = <<w>> /\ ~SlotWritten(widx[w] + 1)
    /\ \A i \in 1..Len(checks) :
          /\ Len(probes[i].takes) <= 1
          /\ Len(probes[i].writes) <= 1
          /\ SlotWritten(i) <=> Len(probes[i].writes) = 1
          /\ SlotWritten(i) =>
                /\ probes[i].writes = probes[i].takes
                /\ Val(checks[i]) = CheckOfItem(i)
                /\ Val(checks[i]).originalUrl = canonicalizeUrl(deduped[i].url)
          /\ PoolFinished => SlotWritten(i) /\ Len(probes[i].takes) = 1
    /\ \A i \in Positions \ (1..Len(checks)) : probes[i].takes = << >> /\ probes[i].writes = << >>

C22_WitnessInFlight ==
    /\ pc = "pool" /\ Cardinality(InFlight) = 2
    /\ \E w \in Workers : wpc[w] = "get"

-----------------------------------------------------------------------------
(* C23: the verification phase ends, and a failed check stops nothing else *)

FailureStatuses == {"network_error", "check_error"}

\* the item at position i has a result in what verifyOpportunityUrls returned
HasResult(i) ==
    LET v == Val(urlVerification)
    IN  \/ \E j \in 1..Len(v.items) :
              v.items[j].id = deduped[i].id /\ IsSome(v.items[j].urlCheck)
        \/ \E j \in 1..Len(v.droppedItems) : v.droppedItems[j].id = deduped[i].id

\* every checked item ended in network_error and STRICT_URL_VALIDATION is set
StrictOutage ==
    /\ strict
    /\ Len(checks) > 0
    /\ \A i \in 1..Len(checks) : SlotWritten(i) /\ Val(checks[i]).status = "network_error"

\* a check whose last request failed is a failure status in its own slot,
\* and every written slot follows from the requests of its own item
FailureStaysInItsSlot ==
    \A i \in 1..Len(checks) :
       SlotWritten(i) =>
          /\ Val(checks[i]) = CheckOfItem(i)
          /\ (NeedsProbe(i) /\ RequestsFor(i)[Len(RequestsFor(i))].resp.threw)
                => Val(checks[i]).status \in FailureStatuses

\* a step in which worker w writes a failure status: w reads the cursor
\* again, no other worker changes and the pool goes on
FailedCheckGoesOn ==
    \A w \in Workers :
       (/\ wpc[w] \in {"head", "get"}
        /\ ~IsSome(checks[widx[w] + 1])
        /\ IsSome(checks'[widx[w] + 1])
        /\ Val(checks'[widx[w] + 1]).status \in FailureStatuses)
       => /\ cursor' = cursor + 1
          /\ widx'[w] = cursor
          /\ wpc'[w] = TakenPc(InputItems(deduped), Sources, cursor)
          /\ \A v \in Workers \ {w} : wpc'[v] = wpc[v] /\ widx'[v] = widx[v]
          /\ \A i \in 1..Len(checks) : i /= widx[w] + 1 => checks'[i] = checks[i]
          /\ pc' = pc

C23_WitnessStrictOutage ==
    /\ pc = "returned" /\ Val(urlVerification).threw
    /\ Len(checks) = 1 /\ RequestsFor(1)[Len(RequestsFor(1))].resp = AbortFailure

-----------------------------------------------------------------------------
(* C24: the items beyond MAX_URL_CHECK_ITEMS *)

\* the positions of `items` at or beyond the cap (positions are 1-based here)
BeyondCap == {i \in Positions : i > MAX_URL_CHECK_ITEMS}

\* the places of the returned list that hold the item of position i
PlacesOf(i) ==
    {j \in 1..Len(Val(urlVerification).items) : Val(urlVerification).items[j].id = deduped[i].id}

PassedThroughUnchecked(i) ==
    /\ Cardinality(PlacesOf(i)) = 1
    /\ \A j \in PlacesOf(i) :
          LET out == Val(urlVerification).items[j]
          IN  /\ IsSome(out.urlCheck)
              /\ Val(out.urlCheck).status = "unchecked_limit"
              /\ out = [deduped[i] EXCEPT !.urlCheck = out.urlCheck]
    /\ \A k \in 1..Len(Val(urlVerification).droppedItems) :
          Val(urlVerification).droppedItems[k].id /= deduped[i].id

\* C24: no worker takes an item at or beyond MAX_URL_CHECK_ITEMS and no
\* request is made for it; when verifyOpportunityUrls returns, on the normal
\* path and on the network-unavailable path alike, each such item is in the
\* returned list once, with urlCheck.status unchecked_limit and every other
\* field as it was, and is not among the dropped items.
C24_BeyondCapPassedThrough ==
    /\ pc \in {"pool", "returned"} =>
          \A i \in BeyondCap : probes[i] = [takes |-> << >>, writes |-> << >>, requests |-> << >>]
    /\ (pc = "returned" /\ ~Val(urlVerification).threw) =>
          \A i \in BeyondCap : PassedThroughUnchecked(i)

\* the normal return: one checked item dropped, one kept, and the item beyond
\* the cap passed through
C24_Witness ==
    /\ pc = "returned" /\ ~Val(urlVerification).threw
    /\ ~Val(urlVerification).summary.networkUnavailable
    /\ Len(Val(urlVerification).droppedItems) = 1
    /\ BeyondCap /= {}
    /\ \A i \in BeyondCap : PassedThroughUnchecked(i)

\* the network-unavailable return with an item beyond the cap
C24_WitnessOutage ==
    /\ pc = "returned" /\ ~Val(urlVerification).threw
    /\ Val(urlVerification).summary.networkUnavailable
    /\ BeyondCap /= {}
    /\ \A i \in BeyondCap : PassedThroughUnchecked(i)

-----------------------------------------------------------------------------
(* C25: summaries reused by fingerprint *)

\* the previous record of an item that has the item's fingerprint and a summary
UnchangedRecords(item, previous) ==
    {j \in 1..Len(previous) :
        /\ previous[j].id = item.id
        /\ previous[j].fingerprint = item.fingerprint
        /\ previous[j].summary /= None}

\* the item is new, changed, or its previous record has no summary
NewChangedOrUnsummarised(item, previous) ==
    \/ \A j \in 1..Len(previous) : previous[j].id /= item.id
    \/ \E j \in 1..Len(previous) :
          /\ previous[j].id = item.id
          /\ previous[j].fingerprint /= item.fingerprint \/ previous[j].summary = None

\* C25: in enrichWithSummaries an item whose previous record has the same
\* fingerprint and a summary ends with exactly that summary and is not handed
\* to summarizeWithAI; the items handed to it are new, changed or without a
\* previous summary, and there are at most MAX_AI_ITEMS of them.
C25_ReusedNotAsked ==
    (IsCall("enrichWithSummaries") /\ "asked" \in DOMAIN Val(call)) =>
       LET items == Val(call).args[1]
           previous == Val(call).args[2]
           res == Val(call).res
           asked == Val(call).asked
       IN  /\ Len(res) = Len(items)
           /\ \A i \in 1..Len(items) :
                 \A j \in UnchangedRecords(items[i], previous) :
                    /\ res[i].summary = previous[j].summary
                    /\ i \notin asked
           /\ \A i \in asked : NewChangedOrUnsummarised(items[i], previous)
           /\ Cardinality(asked) <= MAX_AI_ITEMS
           \* what a model answered is found on asked items only
           /\ \A i \in 1..Len(items) :
                 Val(res[i].summary).model \in {AiModels[m] : m \in 1..Len(AiModels)}
                    => i \in asked

\* with an API key and a model that answers, the stored summary of the first
\* item is kept, the next two items carry the model's summary and the fourth,
\* beyond MAX_AI_ITEMS, the heuristic one
C25_Witness ==
    /\ IsCall("enrichWithSummaries") /\ "asked" \in DOMAIN Val(call)
    /\ Val(call).args[3]
    /\ Val(call).args[2] = <<StoredItem(1)>>
    /\ Val(call).asked = {2, 3}
    /\ Val(call).res[1].summary = StoredSummary(1)
    /\ Val(Val(call).res[2].summary).model = AiModels[1]
    /\ Val(Val(call).res[3].summary).model = AiModels[1]
    /\ Val(Val(call).res[4].summary).model = "heuristic"

-----------------------------------------------------------------------------
(* C26: the closing-soon set of the digest *)

IsDigestAt == IsCall("createDigestAt")

\* the item is in the closingSoon list of the call
CountedSoon(item) == \E k \in 1..Len(Val(call).closing) : Val(call).closing[k].item = item

\* the days from now to 23:59:59 of the deadline day, rounded up
CeilingDays(item, dateNow) == daysUntil(Val(item.deadline), dateNow)

\* 23:59:59 of the deadline day lies before now
DeadlineDayEnded(item, dateNow) ==
    /\ IsSome(item.deadline)
    /\ IsSome(DateParseEndOfDay(Val(item.deadline)))
    /\ Before(Val(DateParseEndOfDay(Val(item.deadline))), dateNow)

\* the list is the open, dated items whose rounded-up days are 0..14, in
\* ascending order of days left, and stats.closingSoon is its length
ClosingSoonByCeiling ==
    LET items == Val(call).args[1]
        closing == Val(call).closing
    IN  /\ Val(call).res.stats.closingSoon = Len(closing)
        /\ \A i \in 1..Len(items) :
              CountedSoon(items[i]) <=>
                 /\ items[i].status = "open"
                 /\ items[i].deadline /= None
                 /\ CeilingDays(items[i], Val(call).now) >= 0
                 /\ CeilingDays(items[i], Val(call).now) <= 14
        /\ \A k \in 1..Len(closing) :
              /\ \E i \in 1..Len(items) : closing[k].item = items[i]
              /\ closing[k].daysLeft = CeilingDays(closing[k].item, Val(call).now)
        /\ \A k \in 1..(Len(closing) - 1) : closing[k].daysLeft <= closing[k + 1].daysLeft

\* C26: an item is in the digest's closing-soon set exactly when it is open,
\* has a deadline and the days from now to the end of the deadline day,
\* rounded up, are 0..14; the set is in ascending order of days left; and no
\* item whose deadline day has ended before now is in it.
C26_ClosingSoonNotEnded ==
    IsDigestAt =>
       /\ ClosingSoonByCeiling
       /\ \A i \in 1..Len(Val(call).args[1]) :
             DeadlineDayEnded(Val(call).args[1][i], Val(call).now)
                => ~CountedSoon(Val(call).args[1][i])

\* what createDigest does do: the set by the rounded-up days alone
C26_ClosingSoonByCeiling == IsDigestAt => ClosingSoonByCeiling

\* at noon of 2026-02-19 an open item with deadline 2026-02-18 is listed as
\* closing soon with 0 days left
C26_EndedYesterdayCounted ==
    /\ IsDigestAt
    /\ Val(call).now = <<DaysFromCivil(2026, 2, 19), 43200000>>
    /\ \E k \in 1..Len(Val(call).closing) :
          /\ Val(call).closing[k].item.deadline = Some("2026-02-18")
          /\ Val(call).closing[k].daysLeft = 0
    /\ Val(call).res.stats.closingSoon >= 1

-----------------------------------------------------------------------------
(* C27: the link candidates of a source *)

\* parseSource is running for a source
Discovering == pc = "discover" /\ IsSome(discovery) /\ Val(discovery).src <= Len(Sources)

\* the candidates of the source being parsed that came from links, the seed
\* pages themselves left out
LinkCandidates == SelectSeq(Val(discovery).detail, LAMBDA c : c.sourceType = "detail")

\* those found on the page of one seed URL
LinkCandidatesOf(seedUrl) == SelectSeq(LinkCandidates, LAMBDA c : c.seedUrl = seedUrl)

CandidateScore(c) == scoreCandidate([url |-> c.url, text |-> c.anchorText], Sources[Val(discovery).src])

\* distinct URLs, scores of at least 1 in descending order, at most max of them
RankedAndCapped(list, max) ==
    /\ \A i, j \in 1..Len(list) : i /= j => list[i].url /= list[j].url
    /\ \A i \in 1..Len(list) : CandidateScore(list[i]) >= 1
    /\ \A i \in 1..(Len(list) - 1) : CandidateScore(list[i]) >= CandidateScore(list[i + 1])
    /\ Len(list) <= max

\* C27: for each source, the link candidates kept by discovery (the seed
\* pages themselves not counted) have pairwise distinct URLs, each scores at
\* least 1, they are in descending score order and they are at most the
\* per-source maximum, however many seed URLs the source has.
C27_CandidatesPerSource ==
    Discovering => RankedAndCapped(LinkCandidates, MaxPerSource)

\* what parseSource does do: the same for the links of each seed page
C27_CandidatesPerSeedPage ==
    Discovering =>
       \A k \in 1..Len(SeedUrls(Val(discovery).config, Sources[Val(discovery).src])) :
          RankedAndCapped(LinkCandidatesOf(SeedUrls(Val(discovery).config,
                                                    Sources[Val(discovery).src])[k]),
                          MaxPerSource)

\* both listing pages of ukri were fetched and each gave link candidates:
\* together they are more than --max-per-source
C27_MoreThanMaxPerSource ==
    /\ Discovering
    /\ Val(discovery).src = 1 /\ Val(discovery).stage = "details"
    /\ Len(LinkCandidates) > MaxPerSource
    /\ LinkCandidatesOf(SeedA) /= << >> /\ LinkCandidatesOf(SeedB) /= << >>

-----------------------------------------------------------------------------
(* C28: the candidate pages fetched in one run *)

\* the fetches of candidate pages made so far in the run, over all sources
DetailFetches == SelectSeq(Val(discovery).fetched, LAMBDA f : f.kind = "detail")

\* those made for one source
DetailFetchesOf(s) == SelectSeq(DetailFetches, LAMBDA f : f.src = s)

NoUrlTwice(list) == \A i, j \in 1..Len(list) : i /= j => list[i].url /= list[j].url

\* C28: in one run no candidate URL is fetched more than once, and the
\* candidate pages fetched over all sources are never more than
\* MAX_DETAIL_FETCH.
C28_DetailFetchesCapped ==
    IsSome(discovery) =>
       /\ NoUrlTwice(DetailFetches)
       /\ Len(DetailFetches) <= MAX_DETAIL_FETCH

\* what parseSource does do: within one source no candidate URL is fetched
\* twice, and a candidate page is fetched only while the source has kept fewer
\* than MAX_DETAIL_FETCH items
C28_DetailFetchesPerSource ==
    /\ IsSome(discovery) => \A s \in 1..Len(Sources) : NoUrlTwice(DetailFetchesOf(s))
    /\ Discovering /\ Val(discovery).stage = "details"
          => Len(Val(discovery).result) < MAX_DETAIL_FETCH

\* more candidate pages than MAX_DETAIL_FETCH were fetched for one source,
\* some of them failing or giving no item that is kept
C28_MoreThanMaxDetailFetch ==
    /\ IsSome(discovery)
    /\ \E s \in 1..Len(Sources) : Len(DetailFetchesOf(s)) > MAX_DETAIL_FETCH
    /\ \E i \in 1..Len(DetailFetches) : ~DetailFetches[i].ok

-----------------------------------------------------------------------------
(* C29: a run leaves the previous snapshot as it was loaded *)

IsRun == IsCall("main")

\* the fields of a previous item the claim names (rawSignals is extractedAt
\* and sourceType; the flags are isNew and isUpdated)
SnapshotFields ==
    {"url", "urlCheck", "summary", "eligibility", "extractedAt", "sourceType",
     "fingerprint", "isNew", "isUpdated"}

\* C29: after any run (live discovery, carry-forward or static fallback, with
\* or without summary reuse) every item of previousItems / previousMap has the
\* url, urlCheck, summary, eligibility, rawSignals, fingerprint and flags it
\* had when it was loaded.
C29_PreviousSnapshotNotMutated ==
    IsRun =>
       \A o \in 1..Len(Val(call).res.loaded) :
          \A f \in SnapshotFields : Val(call).res.store[o][f] = Val(call).res.loaded[o][f]

\* the objects of the list that is written are none of the previous items,
\* and their fields are those of the run over values
C29_WrittenAsOverValues ==
    IsRun /\ ~Val(call).res.failed =>
       LET args == Val(call).args
           working == WorkingSet(args[2], args[1], Sources, args[3], 3)
       IN  [i \in 1..Len(Val(call).res.written) |->
               [f \in DOMAIN Val(call).res.written[i] \ {"obj"} |-> Val(call).res.written[i][f]]]
           = Consolidate(verifyFinish(InputItems(working), UncheckedTail(working),
                                      Val(call).res.slots,
                                      args[5]),
                         args[1], 3)

\* a run that carried the previous items forward, rewrote a URL to the final
\* URL of its check and reused a stored summary
C29_Witness ==
    /\ IsRun /\ ~Val(call).res.failed
    /\ Val(call).res.origin = "carried_forward"
    /\ \E i \in 1..Len(Val(call).res.written) :
       \E o \in 1..Len(Val(call).res.loaded) :
          /\ Val(call).res.written[i].id = Val(call).res.loaded[o].id
          /\ Val(call).res.written[i].summary = Val(call).res.loaded[o].summary
          /\ Val(call).res.written[i].urlCheck /= Val(call).res.loaded[o].urlCheck
          /\ Val(call).res.written[i].extractedAt /= Val(call).res.loaded[o].extractedAt

\* a live run that found a previous item again and reused its summary
C29_WitnessLive ==
    /\ IsRun /\ ~Val(call).res.failed
    /\ Val(call).res.origin = "live"
    /\ \E i \in 1..Len(Val(call).res.written) :
          /\ Val(call).res.written[i].isNew = Some(FALSE)
          /\ Val(call).res.written[i].isUpdated = Some(FALSE)

-----------------------------------------------------------------------------
(* C30: canonicalizeUrl applied twice *)

IsCanonicalized == IsCall("canonicalizeUrl")

\* C30: canonicalizeUrl is idempotent: canonicalizeUrl(canonicalizeUrl(u)) =
\* canonicalizeUrl(u) for every URL u, so the url stored on an item and the
\* key mergeAndDedupe computes from it are the same string, also for paths
\* that end in more than one slash.
C30_CanonicalizeIdempotent ==
    IsCanonicalized => Val(call).key = Val(call).res

\* what canonicalizeUrl does do: one trailing slash is removed, so the second
\* application changes the result exactly when the path ended in two slashes
\* after something else
C30_IdempotentUnlessTwoSlashes ==
    IsCanonicalized =>
       LET u == Val(call).args[1]
       IN  Val(call).key /= Val(call).res
              <=> u.ok /\ EndsWith(u.pathname, "//") /\ u.pathname /= "//"

\* the stored url of a path ending in two slashes keeps one of them, the key
\* has none
C30_StoredUrlIsNotItsKey ==
    /\ IsCanonicalized
    /\ Val(call).args[1] = Url("https:", "www.ukri.org", "/opportunity/a//", "")
    /\ Val(call).res = "https://www.ukri.org/opportunity/a/"
    /\ Val(call).key = "https://www.ukri.org/opportunity/a"

====
